---- MODULE Spec2Model ----
(***************************************************************************)
(* Verification model of finografic/macos-layouts: the window matcher,     *)
(* the display role resolver, the rect converter, the layout builder, the  *)
(* in-process apply pipeline and the logic embedded in the generated Lua   *)
(* program.                                                                *)
(*                                                                         *)
(* Conventions.  JavaScript `undefined` on a rule field is the string      *)
(* Undefined, a window's `bundleId: null` is the string Null, a role that  *)
(* resolves to `null` is the record NoScreen.  Window ids are numbers: the *)
(* code compares them as strings, which is a total order as well.  Titles, *)
(* screen names and patterns are tuples of characters; patterns are        *)
(* literal (no metacharacters), so RegExp.test, String.includes,           *)
(* string.find(.., 1, true) and string.match all reduce to Includes.       *)
(* Role names are ordinary identifiers (not names of properties inherited  *)
(* from Object.prototype, not integer-like keys).                          *)
(***************************************************************************)
EXTENDS Integers, Sequences, FiniteSets, TLC

\* ───── Bounds of the model ─────────────────────────────────────────────────
MaxWindows == 2      \* windows in a snapshot
MaxRules == 2        \* rules processed by one matchWindows call
MaxLimit == 1        \* largest `limit` of an 'all' rule
MaxScreens == 2      \* screens in a snapshot
MaxRoles == 2        \* roles of a display role map
Grid == 1000         \* normalized coordinates are drawn as multiples of 1 / Grid

Undefined == "undefined"
Null == "null"

\* ───── Helpers on sequences ───────────────────────────────────────────────
Range(s) == {s[i] : i \in 1..Len(s)}

\* String.prototype.includes / RegExp.test for a literal pattern
Includes(s, sub) ==
  \E i \in 0..(Len(s) - Len(sub)) : SubSeq(s, i + 1, i + Len(sub)) = sub

\* Array.prototype.find: <<first element satisfying Test>> or <<>>
Find(s, Test(_)) ==
  LET hit == SelectSeq(s, Test) IN IF hit = <<>> THEN <<>> ELSE <<Head(hit)>>

\* Array.prototype.slice(0, n) for n >= 0
Slice0(s, n) == SubSeq(s, 1, IF n < Len(s) THEN n ELSE Len(s))

\* ───── window-matcher.ts ────────────────────────────────────────────────────

\* appLabel(rule)
appLabel(rule) ==
  IF rule.app.bundleId # Undefined THEN rule.app.bundleId
  ELSE IF rule.app.name # Undefined THEN rule.app.name
  ELSE "(unknown)"

\* the comparator of sortWindows: TRUE when it returns a negative number
compareWindows(a, b) ==
  IF a.frame.x # b.frame.x THEN a.frame.x < b.frame.x
  ELSE IF a.frame.y # b.frame.y THEN a.frame.y < b.frame.y
  ELSE a.id < b.id

\* insertion into a sorted list, before the first element not smaller (stable)
RECURSIVE InsertSorted(_, _)
InsertSorted(w, sorted) ==
  IF sorted = <<>> THEN <<w>>
  ELSE IF compareWindows(Head(sorted), w)
       THEN <<Head(sorted)>> \o InsertSorted(w, Tail(sorted))
       ELSE <<w>> \o sorted

\* (mutant) a pool keeps the order of the window list
sortWindowsAsGiven(ws) == ws

\* sortWindows(windows): Array.prototype.sort is stable
RECURSIVE sortWindows(_)
sortWindows(ws) ==
  IF ws = <<>> THEN <<>> ELSE InsertSorted(Head(ws), sortWindows(Tail(ws)))

\* (mutant) a minimized window is eligible whatever restoreMinimized says
EligibleMinimized(w, restoreMin) == w.isStandard

\* the eligibility filter of the pool-building loop
Eligible(w, restoreMin) ==
  w.isStandard /\ ~(w.isMinimized /\ ~restoreMin)

\* knownBundleIds / knownNames: built from every window, eligible or not
knownBundleIds(ws) == {w.app.bundleId : w \in {v \in Range(ws) : v.app.bundleId # Null}}
knownNames(ws) == {w.app.name : w \in Range(ws)}

\* poolByBundleId.get(key) and poolByName.get(key); <<>> stands for `undefined`
\* (a pool that exists is never empty: it is created by its first push)
poolByBundleId(ws, restoreMin, key) ==
  LET In(w) == Eligible(w, restoreMin) /\ w.app.bundleId # Null /\ w.app.bundleId = key
  IN  sortWindows(SelectSeq(ws, In))

poolByName(ws, restoreMin, key) ==
  LET In(w) == Eligible(w, restoreMin) /\ w.app.name = key
  IN  sortWindows(SelectSeq(ws, In))

\* "Find the pool for this rule"
PoolOf(rule, ws, restoreMin) ==
  IF rule.app.bundleId # Undefined THEN poolByBundleId(ws, restoreMin, rule.app.bundleId)
  ELSE IF rule.app.name # Undefined THEN poolByName(ws, restoreMin, rule.app.name)
  ELSE <<>>

\* `known` of the pool === undefined branch
Known(rule, ws) ==
  \/ rule.app.bundleId # Undefined /\ rule.app.bundleId \in knownBundleIds(ws)
  \/ rule.app.name # Undefined /\ rule.app.name \in knownNames(ws)

Skip(rule, reason) == [ruleId |-> rule.id, app |-> appLabel(rule), reason |-> reason]
Match(rule, w) == [ruleId |-> rule.id, windowId |-> w.id]

\* (mutant) the limit of an 'all' rule is ignored
AllUnlimited(rule, pool, claimedIds) ==
  LET Unclaimed(w) == w.id \notin claimedIds IN SelectSeq(pool, Unclaimed)

\* the windows an 'all' rule takes: unclaimed, truncated to the limit
AllLimited(rule, pool, claimedIds) ==
  LET Unclaimed(w) == w.id \notin claimedIds
      unclaimed == SelectSeq(pool, Unclaimed)
  IN  IF rule.hasLimit THEN Slice0(unclaimed, rule.limit) ELSE unclaimed

\* (mutant) byIndex takes the window at its position even when it is claimed
CandidateIgnoringClaims(rule, pool, claimedIds) ==
  LET Unclaimed(w) == w.id \notin claimedIds
      Focused(w) == w.isFocused /\ w.id \notin claimedIds
      Titled(w) == w.id \notin claimedIds /\ Includes(w.title, rule.match.pattern)
  IN  CASE rule.match.kind = "mainWindow" ->
             IF Find(pool, Focused) # <<>> THEN Find(pool, Focused)
             ELSE Find(pool, Unclaimed)
        [] rule.match.kind = "byIndex" ->
             IF rule.match.index + 1 \in 1..Len(pool)
             THEN <<pool[rule.match.index + 1]>>
             ELSE <<>>
        [] rule.match.kind = "byTitle" -> Find(pool, Titled)
        [] OTHER -> <<>>

\* (mutant) byIndex falls back to the first unclaimed window of the pool
CandidateRetrying(rule, pool, claimedIds) ==
  LET Unclaimed(w) == w.id \notin claimedIds
      Focused(w) == w.isFocused /\ w.id \notin claimedIds
      Titled(w) == w.id \notin claimedIds /\ Includes(w.title, rule.match.pattern)
  IN  CASE rule.match.kind = "mainWindow" ->
             IF Find(pool, Focused) # <<>> THEN Find(pool, Focused)
             ELSE Find(pool, Unclaimed)
        [] rule.match.kind = "byIndex" ->
             IF /\ rule.match.index + 1 \in 1..Len(pool)
                /\ pool[rule.match.index + 1].id \notin claimedIds
             THEN <<pool[rule.match.index + 1]>>
             ELSE Find(pool, Unclaimed)
        [] rule.match.kind = "byTitle" -> Find(pool, Titled)
        [] OTHER -> <<>>

\* (mutant) mainWindow takes the first unclaimed window, focused or not
CandidateFirstUnclaimed(rule, pool, claimedIds) ==
  LET Unclaimed(w) == w.id \notin claimedIds
      Titled(w) == w.id \notin claimedIds /\ Includes(w.title, rule.match.pattern)
  IN  CASE rule.match.kind = "mainWindow" -> Find(pool, Unclaimed)
        [] rule.match.kind = "byIndex" ->
             IF /\ rule.match.index + 1 \in 1..Len(pool)
                /\ pool[rule.match.index + 1].id \notin claimedIds
             THEN <<pool[rule.match.index + 1]>>
             ELSE <<>>
        [] rule.match.kind = "byTitle" -> Find(pool, Titled)
        [] OTHER -> <<>>

\* the candidate of a mainWindow / byIndex / byTitle rule: <<w>> or <<>> (null)
Candidate(rule, pool, claimedIds) ==
  LET Unclaimed(w) == w.id \notin claimedIds
      Focused(w) == w.isFocused /\ w.id \notin claimedIds
      Titled(w) == w.id \notin claimedIds /\ Includes(w.title, rule.match.pattern)
  IN  CASE rule.match.kind = "mainWindow" ->
             IF Find(pool, Focused) # <<>> THEN Find(pool, Focused)
             ELSE Find(pool, Unclaimed)
        [] rule.match.kind = "byIndex" ->
             IF /\ rule.match.index + 1 \in 1..Len(pool)
                /\ pool[rule.match.index + 1].id \notin claimedIds
             THEN <<pool[rule.match.index + 1]>>
             ELSE <<>>
        [] rule.match.kind = "byTitle" -> Find(pool, Titled)
        [] OTHER -> <<>>

\* (mutant) a mainWindow / byIndex / byTitle rule without a candidate is passed
\* over without a skip
MatchRuleSilent(rule, ws, restoreMin, claimedIds) ==
  LET pool == PoolOf(rule, ws, restoreMin)
      none == [claimed |-> claimedIds, matched |-> <<>>, skipped |-> <<>>]
  IN  IF pool = <<>>
      THEN [none EXCEPT !.skipped =
              <<Skip(rule, IF Known(rule, ws) THEN "noWindows" ELSE "appNotRunning")>>]
      ELSE IF rule.match.kind = "all"
      THEN LET limited == AllLimited(rule, pool, claimedIds)
           IN  [claimed |-> claimedIds \cup {w.id : w \in Range(limited)},
                matched |-> [i \in 1..Len(limited) |-> Match(rule, limited[i])],
                skipped |-> IF limited = <<>> THEN <<Skip(rule, "noMatch")>> ELSE <<>>]
      ELSE LET candidate == Candidate(rule, pool, claimedIds)
           IN  IF candidate # <<>>
               THEN [claimed |-> claimedIds \cup {candidate[1].id},
                     matched |-> <<Match(rule, candidate[1])>>,
                     skipped |-> <<>>]
               ELSE none

\* One iteration of `for (const rule of rules)`: the new claimed set and the
\* entries pushed to matched and to skipped
MatchRule(rule, ws, restoreMin, claimedIds) ==
  LET pool == PoolOf(rule, ws, restoreMin)
      none == [claimed |-> claimedIds, matched |-> <<>>, skipped |-> <<>>]
  IN  IF pool = <<>>
      THEN [none EXCEPT !.skipped =
              <<Skip(rule, IF Known(rule, ws) THEN "noWindows" ELSE "appNotRunning")>>]
      ELSE IF rule.match.kind = "all"
      THEN LET limited == AllLimited(rule, pool, claimedIds)
           IN  [claimed |-> claimedIds \cup {w.id : w \in Range(limited)},
                matched |-> [i \in 1..Len(limited) |-> Match(rule, limited[i])],
                skipped |-> IF limited = <<>> THEN <<Skip(rule, "noMatch")>> ELSE <<>>]
      ELSE LET candidate == Candidate(rule, pool, claimedIds)
           IN  IF candidate # <<>>
               THEN [claimed |-> claimedIds \cup {candidate[1].id},
                     matched |-> <<Match(rule, candidate[1])>>,
                     skipped |-> <<>>]
               ELSE [none EXCEPT !.skipped = <<Skip(rule, "noMatch")>>]

\* matchWindows(rules, windows, options): the loop folded over the rule list
RECURSIVE MatchLoop(_, _, _, _)
MatchLoop(rules, ws, restoreMin, acc) ==
  IF rules = <<>> THEN acc
  ELSE LET r == MatchRule(Head(rules), ws, restoreMin, acc.claimed)
       IN  MatchLoop(Tail(rules), ws, restoreMin,
                     [claimed |-> r.claimed,
                      matched |-> acc.matched \o r.matched,
                      skipped |-> acc.skipped \o r.skipped])

matchWindows(rules, ws, restoreMin) ==
  LET r == MatchLoop(rules, ws, restoreMin,
                     [claimed |-> {}, matched |-> <<>>, skipped |-> <<>>])
  IN  [matched |-> r.matched, skipped |-> r.skipped]


\* ───── rect-converter.ts ────────────────────────────────────────────────────
\* Numbers that need not be integers are fractions <<numerator, denominator>>
\* with a positive denominator; the arithmetic is exact.

\* Math.round of the fraction n / d: the nearest integer, halves upwards
Round(n, d) == (2 * n + d) \div (2 * d)

\* (mutant) Math.floor in place of Math.round
FloorScaled(offset, fraction, size) ==
  (offset * fraction[2] + fraction[1] * size) \div fraction[2]

\* (mutant) Math.ceil in place of Math.round
CeilScaled(offset, fraction, size) ==
  0 - ((0 - (offset * fraction[2] + fraction[1] * size)) \div fraction[2])

\* Math.round(offset + fraction * size), the size and the offset integers
RoundScaled(offset, fraction, size) ==
  Round(offset * fraction[2] + fraction[1] * size, fraction[2])

\* (mutant) the origin of the frame is added to the size as well
normalizedToAbsoluteShifted(norm, frame) ==
  [x |-> RoundScaled(frame.x, norm.x, frame.w),
   y |-> RoundScaled(frame.y, norm.y, frame.h),
   w |-> RoundScaled(frame.x, norm.w, frame.w),
   h |-> RoundScaled(frame.y, norm.h, frame.h)]

\* normalizedToAbsolute(normalized, screenFrame)
normalizedToAbsolute(norm, frame) ==
  [x |-> RoundScaled(frame.x, norm.x, frame.w),
   y |-> RoundScaled(frame.y, norm.y, frame.h),
   w |-> RoundScaled(0, norm.w, frame.w),
   h |-> RoundScaled(0, norm.h, frame.h)]

\* absoluteToNormalized(absolute, screenFrame): no rounding
absoluteToNormalized(abs, frame) ==
  [x |-> <<abs.x - frame.x, frame.w>>,
   y |-> <<abs.y - frame.y, frame.h>>,
   w |-> <<abs.w, frame.w>>,
   h |-> <<abs.h, frame.h>>]

\* ───── display-resolver.ts ──────────────────────────────────────────────────
NoScreen == [id |-> Null]

\* area(rect)
area(rect) == rect.w * rect.h

IsExternal(s) == ~s.isBuiltin
IsBuiltinScreen(s) == s.isBuiltin
IsPrimaryScreen(s) == s.isPrimary

\* externals.reduce((best, s) => area(s.fullFrame) > area(best.fullFrame) ? s : best)
RECURSIVE ReduceLargest(_, _)
ReduceLargest(best, rest) ==
  IF rest = <<>> THEN best
  ELSE ReduceLargest(IF area(Head(rest).fullFrame) > area(best.fullFrame)
                     THEN Head(rest) ELSE best, Tail(rest))

\* (mutant) the first of several smallest screens wins
RECURSIVE ReduceSmallestFirst(_, _)
ReduceSmallestFirst(best, rest) ==
  IF rest = <<>> THEN best
  ELSE ReduceSmallestFirst(IF area(Head(rest).fullFrame) < area(best.fullFrame)
                           THEN Head(rest) ELSE best, Tail(rest))

\* externals.reduce((best, s) => area(s.fullFrame) <= area(best.fullFrame) ? s : best)
RECURSIVE ReduceSmallest(_, _)
ReduceSmallest(best, rest) ==
  IF rest = <<>> THEN best
  ELSE ReduceSmallest(IF area(Head(rest).fullFrame) <= area(best.fullFrame)
                      THEN Head(rest) ELSE best, Tail(rest))

\* [...externals].sort((a, b) => area(b.fullFrame) - area(a.fullFrame)): the sort
\* is stable, so s, which precedes every element of `sorted` in the array,
\* goes in front of the elements of its own area
RECURSIVE InsertByArea(_, _)
InsertByArea(s, sorted) ==
  IF sorted = <<>> THEN <<s>>
  ELSE IF area(Head(sorted).fullFrame) > area(s.fullFrame)
       THEN <<Head(sorted)>> \o InsertByArea(s, Tail(sorted))
       ELSE <<s>> \o sorted

RECURSIVE SortByAreaDesc(_)
SortByAreaDesc(ss) ==
  IF ss = <<>> THEN <<>> ELSE InsertByArea(Head(ss), SortByAreaDesc(Tail(ss)))

\* matchScreen(match, pool): <<screen>> or <<>> (null)
matchScreen(match, pool) ==
  LET externals == SelectSeq(pool, IsExternal)
      Named(s) == Includes(s.name, match.name)
  IN  CASE match.kind = "builtin" -> Find(pool, IsBuiltinScreen)
        [] match.kind = "primary" -> Find(pool, IsPrimaryScreen)
        [] match.kind = "largestExternal" ->
             IF externals = <<>> THEN <<>>
             ELSE <<ReduceLargest(Head(externals), Tail(externals))>>
        [] match.kind = "smallestExternal" ->
             IF externals = <<>> THEN <<>>
             ELSE <<ReduceSmallest(Head(externals), Tail(externals))>>
        [] match.kind = "externalByIndex" ->
             IF match.index + 1 \in 1..Len(externals)
             THEN <<SortByAreaDesc(externals)[match.index + 1]>>
             ELSE <<>>
        [] match.kind = "byName" -> Find(pool, Named)
        [] OTHER -> <<>>

\* (mutant) a matched screen stays in the pool
KeepInPool(pool, screen) == pool

\* pool.splice(pool.indexOf(matched), 1)
RemoveFromPool(pool, screen) ==
  LET at == CHOOSE i \in 1..Len(pool) :
              pool[i] = screen /\ \A j \in 1..(i - 1) : pool[j] # screen
  IN  SubSeq(pool, 1, at - 1) \o SubSeq(pool, at + 1, Len(pool))

\* (mutant) a fallback is never followed
FallbackIgnored(resolvedSoFar, fallback) == NoScreen

\* resolved[role.fallback] ?? null
FallbackValue(resolvedSoFar, fallback) ==
  IF fallback \in DOMAIN resolvedSoFar THEN resolvedSoFar[fallback] ELSE NoScreen

\* one iteration of `for (const [roleName, role] of Object.entries(roles))`
ResolveRole(role, acc) ==
  LET found == matchScreen(role.match, acc.pool)
      value == IF found # <<>> THEN found[1]
               ELSE IF role.fallback # Undefined
                    THEN FallbackValue(acc.resolved, role.fallback)
                    ELSE NoScreen
  IN  [pool |-> IF found # <<>> THEN RemoveFromPool(acc.pool, found[1]) ELSE acc.pool,
       resolved |-> [n \in DOMAIN acc.resolved \cup {role.name} |->
                       IF n = role.name THEN value ELSE acc.resolved[n]]]

RECURSIVE ResolveLoop(_, _)
ResolveLoop(roleList, acc) ==
  IF roleList = <<>> THEN acc ELSE ResolveLoop(Tail(roleList), ResolveRole(Head(roleList), acc))

\* resolveDisplayRoles(roles, screens); `roles` is the role map as the list of
\* its entries in declaration order
resolveDisplayRoles(roleList, screenList) ==
  ResolveLoop(roleList, [pool |-> screenList, resolved |-> <<>>]).resolved

\* ───── layout-builder.ts ────────────────────────────────────────────────────
Round4Scale == 10000

\* round4(n) = Math.round(n * 10_000) / 10_000
round4(n) == <<Round(n[1] * Round4Scale, n[2]), Round4Scale>>

\* roundedNormalizedRect(rect)
roundedNormalizedRect(rect) ==
  [x |-> round4(rect.x), y |-> round4(rect.y), w |-> round4(rect.w), h |-> round4(rect.h)]

\* toKebab(w.app.name || 'unknown') on the application names of the model
toKebab(name) ==
  CASE name = "N1" -> "n1"
    [] name = "N2" -> "n2"
    [] name = "" -> "unknown"
    [] OTHER -> "x"

\* matcherForScreen(screen)
matcherForScreen(screen) ==
  IF screen.isPrimary THEN [kind |-> "primary", index |-> 0, name |-> <<>>]
  ELSE IF screen.isBuiltin THEN [kind |-> "builtin", index |-> 0, name |-> <<>>]
  ELSE [kind |-> "byName", index |-> 0, name |-> screen.name]

\* a.localeCompare(b) < 0 on screen names: character by character, a proper
\* prefix first
CharRank(c) == CASE c = "G" -> 1 [] c = "L" -> 2 [] OTHER -> 3

RECURSIVE NameBefore(_, _)
NameBefore(a, b) ==
  IF b = <<>> THEN FALSE
  ELSE IF a = <<>> THEN TRUE
  ELSE IF Head(a) # Head(b) THEN CharRank(Head(a)) < CharRank(Head(b))
  ELSE NameBefore(Tail(a), Tail(b))

\* (mutant) builtin screens sort ahead of the primary one
rankBuiltinFirst(s) == IF s.isBuiltin THEN 0 ELSE IF s.isPrimary THEN 1 ELSE 2

\* the comparator of entries.sort: TRUE when it returns a negative number
rank(s) == IF s.isPrimary THEN 0 ELSE IF s.isBuiltin THEN 1 ELSE 2

EntryBefore(a, b) ==
  IF rank(a.screen) # rank(b.screen) THEN rank(a.screen) < rank(b.screen)
  ELSE NameBefore(a.screen.name, b.screen.name)

RECURSIVE InsertEntry(_, _)
InsertEntry(e, sorted) ==
  IF sorted = <<>> THEN <<e>>
  ELSE IF EntryBefore(Head(sorted), e)
       THEN <<Head(sorted)>> \o InsertEntry(e, Tail(sorted))
       ELSE <<e>> \o sorted

\* entries.sort(...): the sort is stable, so e, which precedes every element
\* of `sorted` among the entries, stays in front of those it ties with
RECURSIVE SortEntries(_)
SortEntries(es) ==
  IF es = <<>> THEN <<>> ELSE InsertEntry(Head(es), SortEntries(Tail(es)))

\* (mutant) a screen without a role is given the role of the first assignment
screenIdToRoleDefaulting(assignments, screenId) ==
  LET at == { i \in 1..Len(assignments) : assignments[i].screen.id = screenId }
  IN  IF at = {} THEN (IF assignments = <<>> THEN Undefined ELSE assignments[1].name)
      ELSE assignments[CHOOSE i \in at : \A j \in at : j <= i].name

\* screenIdToRole.get(screenId): the last assignment of that screen, or Undefined
screenIdToRole(assignments, screenId) ==
  LET at == { i \in 1..Len(assignments) : assignments[i].screen.id = screenId }
  IN  IF at = {} THEN Undefined
      ELSE assignments[CHOOSE i \in at : \A j \in at : j <= i].name

\* displayRoleAssignments[roleName]
AssignedScreen(assignments, roleName) ==
  (CHOOSE e \in Range(assignments) : e.name = roleName).screen

\* w.app.bundleId ?? w.app.name
appKey(w) == IF w.app.bundleId # Null THEN w.app.bundleId ELSE w.app.name

\* windowsByApp.get(key), sorted
windowsByApp(selected, key) ==
  LET In(w) == appKey(w) = key IN sortWindows(SelectSeq(selected, In))

\* appGroup.findIndex((gw) => gw.id === w.id)
findIndex(group, w) ==
  LET at == { i \in 1..Len(group) : group[i].id = w.id }
  IN  IF at = {} THEN 0 - 1 ELSE (CHOOSE i \in at : \A j \in at : i <= j) - 1

\* the rule built for the k-th of the selected windows that sit on a screen
\* with a role; the id counter of its application counts the rules before it
BuiltRule(emitted, k, selected, assignments) ==
  LET w == emitted[k]
      roleName == screenIdToRole(assignments, w.screenId)
      screen == AssignedScreen(assignments, roleName)
      byIndexValue == findIndex(windowsByApp(selected, appKey(w)), w)
      idIndex == Cardinality({ j \in 1..(k - 1) : appKey(emitted[j]) = appKey(w) })
  IN  [id |-> <<toKebab(w.app.name), idIndex>>,
       app |-> [bundleId |-> IF w.app.bundleId # Null THEN w.app.bundleId ELSE Undefined,
                name |-> w.app.name],
       match |-> [kind |-> "byIndex",
                  index |-> IF byIndexValue >= 0 THEN byIndexValue ELSE 0,
                  pattern |-> <<>>],
       hasLimit |-> FALSE, limit |-> 0, required |-> FALSE,
       place |-> [display |-> roleName,
                  rect |-> roundedNormalizedRect(absoluteToNormalized(w.frame, screen.frame))]]

\* buildLayout({ selectedWindows, displayRoleAssignments })
buildLayout(selected, assignments) ==
  LET entries == SortEntries(assignments)
      HasRole(w) == screenIdToRole(assignments, w.screenId) # Undefined
      emitted == SelectSeq(selected, HasRole)
  IN  [displayRoles |->
         [i \in 1..Len(entries) |->
            [name |-> entries[i].name, match |-> matcherForScreen(entries[i].screen),
             fallback |-> Undefined]],
       windows |->
         [k \in 1..Len(emitted) |-> BuiltRule(emitted, k, selected, assignments)],
       options |-> [restoreMinimized |-> FALSE, dockDisplay |-> Undefined]]

\* ───── apply.command.ts: steps 4 to 6 ─────────────────────────────────────────

\* ruleMap.get(id): a Map built from [id, rule] pairs keeps the last rule of an id
ruleMapGet(rules, id) ==
  LET at == { i \in 1..Len(rules) : rules[i].id = id }
  IN  rules[CHOOSE i \in at : \A j \in at : j <= i]

\* resolvedRoles[rule.place.display] ?? null
ResolvedScreen(resolvedRoles, display) ==
  IF display \in DOMAIN resolvedRoles THEN resolvedRoles[display] ELSE NoScreen

\* frameForNorm
frameForNorm(r, screen, dockDisplayRole) ==
  IF r.place.display = dockDisplayRole
  THEN [screen.frame EXCEPT !.h = screen.fullFrame.y + screen.fullFrame.h - screen.frame.y]
  ELSE screen.frame

\* the planned move of a matched entry
PlannedMove(m, r, screen, dockDisplayRole) ==
  [ruleId |-> m.ruleId, windowId |-> m.windowId, displayRole |-> r.place.display,
   frame |-> normalizedToAbsolute(r.place.rect, frameForNorm(r, screen, dockDisplayRole))]

\* (mutant) a match whose display role is unresolved is dropped without a skip
RECURSIVE PlanLoopSilent(_, _, _, _, _)
PlanLoopSilent(ms, rules, resolvedRoles, dockDisplayRole, acc) ==
  IF ms = <<>> THEN acc
  ELSE LET m == Head(ms)
           r == ruleMapGet(rules, m.ruleId)
           screen == ResolvedScreen(resolvedRoles, r.place.display)
       IN  PlanLoopSilent(Tail(ms), rules, resolvedRoles, dockDisplayRole,
             IF screen = NoScreen
             THEN acc
             ELSE [acc EXCEPT !.plannedMoves =
                     Append(@, PlannedMove(m, r, screen, dockDisplayRole))])

\* `for (const match of matched)`: plannedMoves and displaySkips
RECURSIVE PlanLoop(_, _, _, _, _)
PlanLoop(ms, rules, resolvedRoles, dockDisplayRole, acc) ==
  IF ms = <<>> THEN acc
  ELSE LET m == Head(ms)
           r == ruleMapGet(rules, m.ruleId)
           screen == ResolvedScreen(resolvedRoles, r.place.display)
       IN  PlanLoop(Tail(ms), rules, resolvedRoles, dockDisplayRole,
             IF screen = NoScreen
             THEN [acc EXCEPT !.displaySkips =
                     Append(@, [ruleId |-> m.ruleId, reason |-> "displayRoleUnresolved"])]
             ELSE [acc EXCEPT !.plannedMoves =
                     Append(@, PlannedMove(m, r, screen, dockDisplayRole))])

\* ───── lua-codegen.ts: the logic of the generated program ─────────────────────

\* collectWindows(): only standard windows, minimized ones when restoring
collectWindows(ws, restoreMin) ==
  LET Kept(w) == w.isStandard /\ (~w.isMinimized \/ restoreMin) IN SelectSeq(ws, Kept)

\* matchScreen of the generated resolver: the screens it can return.  Its
\* externalByIndex sorts with table.sort, which orders externals of equal area
\* in an unspecified way: any external that can stand at the index is possible
luaMatchScreen(match, pool) ==
  LET externals == SelectSeq(pool, IsExternal)
      Larger(e) == Cardinality({ i \in 1..Len(externals) :
                      area(externals[i].fullFrame) > area(e.fullFrame) })
      AtLeast(e) == Cardinality({ i \in 1..Len(externals) :
                      area(externals[i].fullFrame) >= area(e.fullFrame) })
  IN  IF match.kind = "externalByIndex"
      THEN IF match.index + 1 \in 1..Len(externals)
           THEN { <<e>> : e \in { x \in Range(externals) :
                                    Larger(x) <= match.index /\ match.index < AtLeast(x) } }
           ELSE { <<>> }
      ELSE { matchScreen(match, pool) }

\* one iteration of `for _, entry in ipairs(roles)`, for a screen it can find
luaResolveRole(role, acc, found) ==
  [pool |-> IF found # <<>> THEN RemoveFromPool(acc.pool, found[1]) ELSE acc.pool,
   resolved |-> [n \in DOMAIN acc.resolved \cup {role.name} |->
                   IF n = role.name
                   THEN IF found # <<>> THEN found[1]
                        ELSE IF role.fallback # Undefined
                             THEN FallbackValue(acc.resolved, role.fallback)
                             ELSE NoScreen
                   ELSE acc.resolved[n]]]

RECURSIVE luaResolveLoop(_, _)
luaResolveLoop(roleList, accs) ==
  IF roleList = <<>> THEN accs
  ELSE luaResolveLoop(Tail(roleList),
         UNION { { luaResolveRole(Head(roleList), acc, found) :
                     found \in luaMatchScreen(Head(roleList).match, acc.pool) } :
                 acc \in accs })

\* resolveDisplayRoles of the generated program: the mappings it can return
luaResolveDisplayRoles(roleList, screenList) ==
  { acc.resolved : acc \in luaResolveLoop(roleList, {[pool |-> screenList, resolved |-> <<>>]}) }

\* the pools of the generated matchWindows: every window it is given
luaPoolOf(r, ws) ==
  LET ByBundle(w) == w.app.bundleId # Null /\ w.app.bundleId = r.app.bundleId
      ByName(w) == w.app.name # "" /\ w.app.name = r.app.name
  IN  IF r.app.bundleId # Undefined THEN sortWindows(SelectSeq(ws, ByBundle))
      ELSE IF r.app.name # Undefined THEN sortWindows(SelectSeq(ws, ByName))
      ELSE <<>>

\* the windows a rule of the generated matchWindows moves, in order
luaTaken(r, pool, claimedIds) ==
  IF r.match.kind = "all" THEN AllLimited(r, pool, claimedIds)
  ELSE Candidate(r, pool, claimedIds)

luaMove(r, w, screen) ==
  [ruleId |-> r.id, windowId |-> w.id,
   frame |-> normalizedToAbsolute(r.place.rect, screen.frame)]

\* one iteration of `for _, rule in ipairs(rules)`: a rule whose pool is empty
\* or whose display role is unresolved is passed over without claiming
RECURSIVE luaMatchLoop(_, _, _, _)
luaMatchLoop(rules, ws, resolvedDisplays, acc) ==
  IF rules = <<>> THEN acc.moves
  ELSE LET r == Head(rules)
           pool == luaPoolOf(r, ws)
           screen == ResolvedScreen(resolvedDisplays, r.place.display)
           taken == IF pool # <<>> /\ screen # NoScreen
                    THEN luaTaken(r, pool, acc.claimed) ELSE <<>>
       IN  luaMatchLoop(Tail(rules), ws, resolvedDisplays,
             [claimed |-> acc.claimed \cup { w.id : w \in Range(taken) },
              moves |-> acc.moves \o [i \in 1..Len(taken) |-> luaMove(r, taken[i], screen)]])

\* matchWindows(rules, windows, resolvedDisplays) of the generated program
luaMatchWindows(rules, ws, resolvedDisplays) ==
  luaMatchLoop(rules, ws, resolvedDisplays, [claimed |-> {}, moves |-> <<>>])

\* doApply() hands no skip to anyone: it only moves the windows of `moves`
luaSkips(rules, moves) == <<>>

\* a normalized rect; each component is a fraction <<numerator, denominator>>
FullRect == [x |-> <<0, 1>>, y |-> <<0, 1>>, w |-> <<1, 1>>, h |-> <<1, 1>>]

NoRule == [id |-> 0, app |-> [bundleId |-> Undefined, name |-> Undefined],
           match |-> [kind |-> "none", index |-> 0, pattern |-> <<>>],
           hasLimit |-> FALSE, limit |-> 0, required |-> FALSE,
           place |-> [display |-> Undefined, rect |-> FullRect]]


\* ───── State ────────────────────────────────────────────────────────────────
VARIABLES
  windows,            \* the snapshot's window list (RuntimeWindow[])
  restoreMinimized,   \* options.restoreMinimized ?? false
  rule,               \* the loop variable of matchWindows (NoRule before the loop)
  claimed,            \* matchWindows: claimed window ids
  matched,            \* matchWindows: matched entries, in push order
  skipped,            \* matchWindows: skipped entries, in push order
  screens,            \* the snapshot's screen list (RuntimeScreen[])
  roles,              \* a display role map, as its entries in declaration order
  resolved,           \* the result of resolveDisplayRoles
  normalized,         \* rect converter: the normalized rect given
  screenFrame,        \* rect converter: the reference frame given
  absolute,           \* rect converter: normalizedToAbsolute(normalized, screenFrame)
  back,               \* rect converter: absoluteToNormalized(absolute, screenFrame)
  layout,             \* the layout built by save, or the one apply has loaded
  selectedWindows,    \* save: the windows chosen for the layout, in snapshot order
  displayRoleAssignments, \* save: role name -> screen, as entries in insertion order
  plannedMoves,       \* apply: the moves planned in step 6
  displaySkips,       \* apply: the skips collected in step 6
  luaMoves,           \* generated program: the moves of its matchWindows
  luaSkipped,         \* generated program: the skips it reports
  exitCode,           \* the exit code of the command ("none" while it has not returned)
  options,            \* apply: the command line options (dryRun, strict)
  fault,              \* apply: the steps the environment makes fail once they are reached
  calls,              \* apply: the calls made to the loader and to Hammerspoon, in order
  sentMoves,          \* apply: the moves of the script handed to runLua
  file,               \* loader: what the layout file holds
  loadResult,         \* loader: the result of loadLayout
  now,                \* init snippet: hs.timer.secondsSinceEpoch(), in tenths of a second
  lastRun,            \* init snippet: _lastRun, in tenths of a second
  runs,               \* init snippet: the runs of the layout program (start time, cause)
  pending,            \* init snippet: a screen-change notification of the Dock nudge is due
  resolvedAgain,      \* the result of a second resolveDisplayRoles call on the same inputs
  matchedAgain,       \* the matched list of a second matchWindows call on the same inputs
  skippedAgain,       \* the skipped list of a second matchWindows call on the same inputs
  luaResolved,        \* generated program: the result of its resolveDisplayRoles
  timerDue,           \* generated program: when the hs.timer.doAfter timer fires (NoTimer: none armed)
  applied,            \* generated program: the times at which doApply ran
  phase               \* what has run: "start", then the name of the last call

matchVars == <<windows, restoreMinimized, rule, claimed, matched, skipped>>
resolveVars == <<screens, roles, resolved>>
rectVars == <<normalized, screenFrame, absolute, back>>
pipeVars == <<layout, selectedWindows, displayRoleAssignments, plannedMoves, displaySkips,
              luaMoves, luaSkipped, exitCode, options, fault, calls, sentMoves>>
auxVars == <<file, loadResult, now, lastRun, runs, pending,
             resolvedAgain, matchedAgain, skippedAgain, luaResolved, timerDue, applied>>
vars == <<windows, restoreMinimized, rule, claimed, matched, skipped,
          screens, roles, resolved, normalized, screenFrame, absolute, back,
          layout, selectedWindows, displayRoleAssignments, plannedMoves, displaySkips,
          luaMoves, luaSkipped, exitCode, options, fault, calls, sentMoves,
          file, loadResult, now, lastRun, runs, pending,
          resolvedAgain, matchedAgain, skippedAgain, luaResolved, timerDue, applied,
          phase>>

\* the values of the variables a specification does not use
MatchIdle ==
  /\ windows = <<>> /\ restoreMinimized = FALSE /\ rule = NoRule
  /\ claimed = {} /\ matched = <<>> /\ skipped = <<>>
ResolveIdle == screens = <<>> /\ roles = <<>> /\ resolved = <<>>
ZeroRect == [x |-> 0, y |-> 0, w |-> 0, h |-> 0]
RectIdle ==
  /\ normalized = FullRect /\ screenFrame = ZeroRect
  /\ absolute = ZeroRect /\ back = FullRect
NoFile == [state |-> "missing"]
NoResult == [ok |-> FALSE, error |-> "none"]
NoTimer == 0 - 1
AuxIdle ==
  /\ file = NoFile /\ loadResult = NoResult
  /\ now = 0 /\ lastRun = 0 /\ runs = <<>> /\ pending = FALSE
  /\ resolvedAgain = <<>> /\ matchedAgain = <<>> /\ skippedAgain = <<>>
  /\ luaResolved = <<>>
  /\ timerDue = NoTimer /\ applied = <<>>
NoOptions == [dryRun |-> FALSE, strict |-> FALSE]
NoLayout ==
  [displayRoles |-> <<>>, windows |-> <<>>,
   options |-> [restoreMinimized |-> FALSE, dockDisplay |-> Undefined]]
PipeIdle ==
  /\ layout = NoLayout /\ selectedWindows = <<>> /\ displayRoleAssignments = <<>>
  /\ plannedMoves = <<>> /\ displaySkips = <<>>
  /\ luaMoves = <<>> /\ luaSkipped = <<>> /\ exitCode = "none"
  /\ options = NoOptions /\ fault = {} /\ calls = <<>> /\ sentMoves = <<>>

\* ───── Input domains ─────────────────────────────────────────────────────────
WinApps ==
  { [bundleId |-> "B1", name |-> "N1"],
    [bundleId |-> "B2", name |-> "N1"],
    [bundleId |-> Null, name |-> "N2"] }

AppRefs ==
  { [bundleId |-> "B1", name |-> Undefined],
    [bundleId |-> Undefined, name |-> "N1"],
    [bundleId |-> "B2", name |-> "N1"],
    [bundleId |-> Undefined, name |-> "N2"] }

Patterns == { <<"a">>, <<"b">> }
\* <<isStandard, isMinimized>>
WindowFlags == { <<TRUE, FALSE>>, <<TRUE, TRUE>>, <<FALSE, FALSE>> }
\* <<frame.x, frame.y, title>>
WindowLooks ==
  { <<0, 0, <<"a", "b">>>>, <<0, 0, <<"b">>>>, <<0, 1, <<"b">>>>, <<1, 0, <<"a", "b">>>> }

WindowMatches ==
  { [kind |-> "all", index |-> 0, pattern |-> <<>>],
    [kind |-> "mainWindow", index |-> 0, pattern |-> <<>>] }
  \cup { [kind |-> "byIndex", index |-> i, pattern |-> <<>>] : i \in 0..MaxWindows }
  \cup { [kind |-> "byTitle", index |-> 0, pattern |-> p] : p \in Patterns }

ScreenIdOf == <<"s1", "s2", "s3", "s4">>
ScreenIds == { "s1", "s2" }

\* a window of the snapshot: RuntimeWindow
Window(id, app, flags, look, focused, screenId) ==
  [id |-> id, app |-> app, title |-> look[3],
   isStandard |-> flags[1], isMinimized |-> flags[2], isFocused |-> focused,
   screenId |-> screenId, frame |-> [x |-> look[1], y |-> look[2], w |-> 1, h |-> 1]]

\* snapshots of n windows with ids 1..n, at most one of them focused
WindowListsOf(n, apps, flagSet, looks, focuses, screenIds) ==
  { [i \in 1..n |-> Window(i, app[i], flags[i], look[i], focus = i, scr[i])] :
      app \in [1..n -> apps], flags \in [1..n -> flagSet],
      look \in [1..n -> looks], focus \in focuses, scr \in [1..n -> screenIds] }

WindowLists(n, screenIds) ==
  WindowListsOf(n, WinApps, WindowFlags, WindowLooks, 0..n, screenIds)

\* the rules a layout can hold at position id
Rules(id, displays) ==
  { [id |-> id, app |-> app, match |-> match, hasLimit |-> hasLimit, limit |-> limit,
     required |-> FALSE,
     place |-> [display |-> display, rect |-> FullRect]] :
      app \in AppRefs, match \in WindowMatches, hasLimit \in BOOLEAN,
      limit \in 0..MaxLimit, display \in displays }

RuleDomain(id, displays) ==
  { r \in Rules(id, displays) :
      /\ r.match.kind # "all" => ~r.hasLimit /\ r.limit = 0
      /\ ~r.hasLimit => r.limit = 0 }

\* ───── matchWindows as a state machine: one step per loop iteration ─────────
InitMatch ==
  /\ windows \in UNION { WindowLists(n, {"s1"}) : n \in 0..MaxWindows }
  /\ restoreMinimized \in BOOLEAN
  /\ rule = NoRule
  /\ claimed = {}
  /\ matched = <<>>
  /\ skipped = <<>>
  /\ ResolveIdle
  /\ RectIdle
  /\ PipeIdle
  /\ AuxIdle
  /\ phase = "start"

\* the body of `for (const rule of rules)` for the next rule of the list
MatchNextRule ==
  /\ rule.id < MaxRules
  /\ \E r \in RuleDomain(rule.id + 1, {"main"}) :
       LET out == MatchRule(r, windows, restoreMinimized, claimed)
       IN  /\ rule' = r
           /\ claimed' = out.claimed
           /\ matched' = matched \o out.matched
           /\ skipped' = skipped \o out.skipped
  /\ phase' = "matchWindows"
  /\ UNCHANGED auxVars
  /\ UNCHANGED <<windows, restoreMinimized>>
  /\ UNCHANGED resolveVars
  /\ UNCHANGED rectVars
  /\ UNCHANGED pipeVars

NextMatch == MatchNextRule

SpecMatch == InitMatch /\ [][NextMatch]_vars

\* ───── Claims about matchWindows ────────────────────────────────────────────

\* the windows of the application a rule addresses (by bundle id when the rule
\* gives one, else by name), and the eligible ones among them
AppWindows(r) ==
  { w \in Range(windows) :
      IF r.app.bundleId # Undefined THEN w.app.bundleId = r.app.bundleId
      ELSE w.app.name = r.app.name }

EligibleOf(r) ==
  { w \in AppWindows(r) : w.isStandard /\ (~w.isMinimized \/ restoreMinimized) }

\* the sort order (frame.x, frame.y, id)
Before(a, b) ==
  \/ a.frame.x < b.frame.x
  \/ a.frame.x = b.frame.x /\ a.frame.y < b.frame.y
  \/ a.frame.x = b.frame.x /\ a.frame.y = b.frame.y /\ a.id < b.id

\* the zero-based position of w in S taken in sort order
Rank(w, S) == Cardinality({ v \in S : Before(v, w) })

\* the step just taken processed a new rule
RuleStep == rule'.id = rule.id + 1

\* C1: no window id appears in more than one entry of `matched`
C1_NoWindowMatchedTwice ==
  \A i, j \in 1..Len(matched) : matched[i].windowId = matched[j].windowId => i = j

\* two rules of different kinds address one application, one by bundle id and
\* one by name; the second, an 'all' rule, took only what the first left
C1_Witness ==
  /\ rule.id = 2 /\ rule.match.kind = "all" /\ rule.app.bundleId = Undefined
  /\ Len(matched) = 2 /\ matched[1].ruleId = 1 /\ matched[2].ruleId = 2
  /\ Cardinality(EligibleOf(rule)) = 2
  /\ Cardinality(claimed) = 2

\* C6: a byIndex N rule matches the unclaimed window at position N of the full
\* sorted eligible pool of its application, or else nothing: it is then skipped
\* with 'noMatch' (when the pool is not empty) and claims no window
C6_ByIndexOnlyItsPosition ==
  [][ (RuleStep /\ rule'.match.kind = "byIndex") =>
        LET pool == EligibleOf(rule')
            target == { w \in pool : Rank(w, pool) = rule'.match.index /\ w.id \notin claimed }
        IN  IF target # {}
            THEN /\ claimed' = claimed \cup { w.id : w \in target }
                 /\ \E w \in target :
                      matched' = Append(matched, [ruleId |-> rule'.id, windowId |-> w.id])
                 /\ skipped' = skipped
            ELSE /\ claimed' = claimed
                 /\ matched' = matched
                 /\ Len(skipped') = Len(skipped) + 1
                 /\ skipped'[Len(skipped')].ruleId = rule'.id
                 /\ pool # {} => skipped'[Len(skipped')].reason = "noMatch"
    ]_vars

\* a second byIndex rule found its position claimed, was skipped with 'noMatch',
\* and left the other window of the pool unclaimed
C6_Witness ==
  /\ rule.id = 2 /\ rule.match.kind = "byIndex"
  /\ Cardinality(EligibleOf(rule)) = 2
  /\ \E w \in EligibleOf(rule) :
        Rank(w, EligibleOf(rule)) = rule.match.index /\ w.id \in claimed
  /\ Cardinality(claimed) = 1
  /\ Len(skipped) = 1 /\ skipped[1].ruleId = 2 /\ skipped[1].reason = "noMatch"

\* C8 (as claimed): the last rule is skipped with 'appNotRunning' exactly when
\* the snapshot has no window of its application, and with 'noWindows' exactly
\* when it has some but none eligible.  "Its application" is read either as
\* the windows with the rule's bundle id (its name when it has no bundle id),
\* or as the windows with the rule's bundle id or name; the claim is taken to
\* hold when it holds under one of the readings.
ReasonsOf(r) == { skipped[i].reason : i \in { k \in 1..Len(skipped) : skipped[k].ruleId = r.id } }

EitherWindows(r) ==
  { w \in Range(windows) :
      \/ r.app.bundleId # Undefined /\ w.app.bundleId = r.app.bundleId
      \/ r.app.name # Undefined /\ w.app.name = r.app.name }

SkipReasonsAsClaimed(r, appWins) ==
  LET eligible == { w \in appWins : w.isStandard /\ (~w.isMinimized \/ restoreMinimized) }
  IN  /\ "appNotRunning" \in ReasonsOf(r) <=> appWins = {}
      /\ "noWindows" \in ReasonsOf(r) <=> (appWins # {} /\ eligible = {})

C8_SkipReasonByAppPresence ==
  rule # NoRule =>
    \/ SkipReasonsAsClaimed(rule, AppWindows(rule))
    \/ SkipReasonsAsClaimed(rule, EitherWindows(rule))

\* C9: an 'all' rule whose pool has k unclaimed windows matches exactly the
\* first min(k, L) of them in sort order (all k without a limit), claims them,
\* and emits a 'noMatch' skip exactly when it matched none
C9_AllTakesFirstUnclaimed ==
  [][ (RuleStep /\ rule'.match.kind = "all" /\ EligibleOf(rule') # {}) =>
        LET unclaimed == { w \in EligibleOf(rule') : w.id \notin claimed }
            k == Cardinality(unclaimed)
            n == IF rule'.hasLimit /\ rule'.limit < k THEN rule'.limit ELSE k
            taken == { w \in unclaimed : Rank(w, unclaimed) < n }
        IN  /\ claimed' = claimed \cup { w.id : w \in taken }
            /\ Len(matched') = Len(matched) + n
            /\ SubSeq(matched', 1, Len(matched)) = matched
            /\ \A w \in taken :
                 matched'[Len(matched) + Rank(w, unclaimed) + 1]
                   = [ruleId |-> rule'.id, windowId |-> w.id]
            /\ IF n = 0
               THEN /\ Len(skipped') = Len(skipped) + 1
                    /\ skipped'[Len(skipped')].ruleId = rule'.id
                    /\ skipped'[Len(skipped')].reason = "noMatch"
               ELSE skipped' = skipped
    ]_vars

\* an 'all' rule with limit 1 faced two unclaimed windows and took the first
C9_Witness ==
  /\ rule.id = 1 /\ rule.match.kind = "all" /\ rule.hasLimit /\ rule.limit = 1
  /\ Cardinality(EligibleOf(rule)) = 2
  /\ Len(matched) = 1
  /\ \E w \in EligibleOf(rule) : Rank(w, EligibleOf(rule)) = 0 /\ claimed = {w.id}


\* ───── resolveDisplayRoles on drawn inputs ──────────────────────────────────
ScreenNames == { <<"L">>, <<"L", "G">> }
NamePatterns == { <<"L">>, <<"G">> }
\* <<width, height>> of the full frame; the usable frame loses a menu bar row
ScreenSizes == { <<2, 2>>, <<4, 2>> }
RoleNames == <<"a", "b", "c", "d">>

Screen(i, name, size, builtin, primary) ==
  [id |-> ScreenIdOf[i], name |-> name, isBuiltin |-> builtin, isPrimary |-> primary,
   frame |-> [x |-> 0, y |-> 1, w |-> size[1], h |-> size[2] - 1],
   fullFrame |-> [x |-> 0, y |-> 0, w |-> size[1], h |-> size[2]]]

\* snapshots of n screens: exactly one is primary, at most one is built in
ScreenLists(n) ==
  { [i \in 1..n |-> Screen(i, name[i], size[i], builtin = i, primary = i)] :
      name \in [1..n -> ScreenNames], size \in [1..n -> ScreenSizes],
      builtin \in 0..n, primary \in 1..n }

DisplayMatches ==
  { [kind |-> k, index |-> 0, name |-> <<>>] :
      k \in {"builtin", "primary", "largestExternal", "smallestExternal"} }
  \cup { [kind |-> "externalByIndex", index |-> i, name |-> <<>>] : i \in 0..(MaxScreens - 1) }
  \cup { [kind |-> "byName", index |-> 0, name |-> n] : n \in NamePatterns }

\* role maps of n roles named RoleNames[1..n]; a fallback names any role of the
\* map (itself, an earlier or a later one) or the undeclared RoleNames[n + 1]
RoleLists(n) ==
  { [i \in 1..n |-> [name |-> RoleNames[i], match |-> match[i], fallback |-> fallback[i]]] :
      match \in [1..n -> DisplayMatches],
      fallback \in [1..n -> {Undefined} \cup { RoleNames[k] : k \in 1..(n + 1) }] }

InitResolve ==
  /\ screens \in UNION { ScreenLists(n) : n \in 0..MaxScreens }
  /\ roles \in UNION { RoleLists(n) : n \in 0..MaxRoles }
  /\ resolved = <<>>
  /\ MatchIdle
  /\ RectIdle
  /\ PipeIdle
  /\ AuxIdle
  /\ phase = "start"

ResolveDisplayRolesCall ==
  /\ phase = "start"
  /\ resolved' = resolveDisplayRoles(roles, screens)
  /\ phase' = "resolveDisplayRoles"
  /\ UNCHANGED auxVars
  /\ UNCHANGED <<screens, roles>>
  /\ UNCHANGED matchVars
  /\ UNCHANGED rectVars
  /\ UNCHANGED pipeVars

NextResolve == ResolveDisplayRolesCall

SpecResolve == InitResolve /\ [][NextResolve]_vars

\* ───── Claims about resolveDisplayRoles ─────────────────────────────────────
Resolved == phase = "resolveDisplayRoles"
RoleIndexes == 1..Len(roles)
ValueOf(i) == resolved[roles[i].name]

\* C2 (as claimed): no screen is assigned to more than one role, and every
\* non-null value of the result is a screen of the list
C2_NoScreenSharedByRoles ==
  Resolved =>
    /\ \A i, j \in RoleIndexes : (ValueOf(i) = ValueOf(j) /\ ValueOf(i) # NoScreen) => i = j
    /\ \A i \in RoleIndexes : ValueOf(i) = NoScreen \/ ValueOf(i) \in Range(screens)

\* C2 (amended): two roles share a screen only when the later-declared one
\* declares a fallback naming an earlier role that holds that screen; every
\* non-null value of the result is a screen of the list
C2_ScreenSharedOnlyByFallback ==
  Resolved =>
    /\ \A i, j \in RoleIndexes :
         (i < j /\ ValueOf(i) = ValueOf(j) /\ ValueOf(i) # NoScreen) =>
            \E h \in 1..(j - 1) : roles[j].fallback = roles[h].name /\ ValueOf(h) = ValueOf(j)
    /\ \A i \in RoleIndexes : ValueOf(i) = NoScreen \/ ValueOf(i) \in Range(screens)

\* two roles with the same matcher and no fallback got two different screens
C2_Witness ==
  /\ Resolved /\ Len(roles) = 2
  /\ roles[1].match = roles[2].match
  /\ roles[1].fallback = Undefined /\ roles[2].fallback = Undefined
  /\ ValueOf(1) # NoScreen /\ ValueOf(2) # NoScreen /\ ValueOf(1) # ValueOf(2)

\* the screens no earlier role holds: the pool role i is matched against
PoolBefore(i) == { s \in Range(screens) : \A h \in 1..(i - 1) : ValueOf(h) # s }

\* a matcher finds a screen in a pool
Satisfiable(match, pool) ==
  LET externals == { s \in pool : ~s.isBuiltin }
  IN  CASE match.kind = "builtin" -> \E s \in pool : s.isBuiltin
        [] match.kind = "primary" -> \E s \in pool : s.isPrimary
        [] match.kind \in {"largestExternal", "smallestExternal"} -> externals # {}
        [] match.kind = "externalByIndex" -> match.index < Cardinality(externals)
        [] match.kind = "byName" -> \E s \in pool : Includes(s.name, match.name)

\* C7: a role whose matcher finds no unclaimed screen and that names a
\* fallback resolves to the value recorded for the fallback role when that
\* role is declared earlier, and to none otherwise (later-declared, undeclared,
\* itself, cyclic)
C7_FallbackTakesEarlierValue ==
  Resolved =>
    \A i \in RoleIndexes :
      (roles[i].fallback # Undefined /\ ~Satisfiable(roles[i].match, PoolBefore(i))) =>
         IF \E h \in 1..(i - 1) : roles[h].name = roles[i].fallback
         THEN ValueOf(i) = resolved[roles[i].fallback]
         ELSE ValueOf(i) = NoScreen

\* the second role found no screen of its own and took the first role's screen
C7_Witness ==
  /\ Resolved /\ Len(roles) = 2
  /\ roles[2].fallback = roles[1].name
  /\ ~Satisfiable(roles[2].match, PoolBefore(2))
  /\ ValueOf(2) = ValueOf(1) /\ ValueOf(1) # NoScreen

\* a fallback cycle: each of two roles names the other, neither finds a screen
C7_WitnessCycle ==
  /\ Resolved /\ Len(roles) = 2
  /\ roles[1].fallback = roles[2].name /\ roles[2].fallback = roles[1].name
  /\ ValueOf(1) = NoScreen /\ ValueOf(2) = NoScreen /\ screens # <<>>


\* ───── The rect converter on drawn inputs ──────────────────────────────────
\* numerators over Grid: fractions of the frame, also below 0 and above 1
Numerators == { 0, 1, 4, Grid \div 3, Grid \div 2, Grid - 1, Grid, 0 - (Grid \div 4), Grid + 1 }
NumeratorsY == { 0, 1, Grid \div 3, Grid }
FrameXs == { 0, 0 - 3840 }
FrameYs == { 0, 30 }
FrameWidths == { 1, 10, 499, 500, 600, 3840 }
FrameHeights == { 1, 500, 2130 }

InitRect ==
  /\ normalized \in { [x |-> <<nx, Grid>>, y |-> <<ny, Grid>>, w |-> <<nw, Grid>>, h |-> <<nh, Grid>>] :
                        nx \in Numerators, ny \in NumeratorsY,
                        nw \in Numerators, nh \in NumeratorsY }
  /\ screenFrame \in { [x |-> fx, y |-> fy, w |-> fw, h |-> fh] :
                        fx \in FrameXs, fy \in FrameYs,
                        fw \in FrameWidths, fh \in FrameHeights }
  /\ absolute = ZeroRect
  /\ back = FullRect
  /\ MatchIdle
  /\ ResolveIdle
  /\ PipeIdle
  /\ AuxIdle
  /\ phase = "start"

NormalizedToAbsoluteCall ==
  /\ phase = "start"
  /\ absolute' = normalizedToAbsolute(normalized, screenFrame)
  /\ phase' = "normalizedToAbsolute"
  /\ UNCHANGED auxVars
  /\ UNCHANGED <<normalized, screenFrame, back>>
  /\ UNCHANGED matchVars
  /\ UNCHANGED resolveVars
  /\ UNCHANGED pipeVars

AbsoluteToNormalizedCall ==
  /\ phase = "normalizedToAbsolute"
  /\ back' = absoluteToNormalized(absolute, screenFrame)
  /\ phase' = "absoluteToNormalized"
  /\ UNCHANGED auxVars
  /\ UNCHANGED <<normalized, screenFrame, absolute>>
  /\ UNCHANGED matchVars
  /\ UNCHANGED resolveVars
  /\ UNCHANGED pipeVars

NextRect == NormalizedToAbsoluteCall \/ AbsoluteToNormalizedCall

SpecRect == InitRect /\ [][NextRect]_vars

\* ───── Claims about the rect converter ──────────────────────────────────────
Abs(n) == IF n < 0 THEN 0 - n ELSE n
Max(a, b) == IF a > b THEN a ELSE b

\* p equals q within the relative tolerance tol: |p - q| <= tol * max(|p|, |q|)
WithinRelative(p, q, tol) ==
  Abs(p[1] * q[2] - q[1] * p[2]) * tol[2] <= tol[1] * Max(Abs(p[1]) * q[2], Abs(q[1]) * p[2])

\* p equals q within the absolute tolerance tol: |p - q| <= tol
WithinAbsolute(p, q, tol) ==
  Abs(p[1] * q[2] - q[1] * p[2]) * tol[2] <= tol[1] * p[2] * q[2]

RoundTripped == phase = "absoluteToNormalized"
Thousandth == <<1, 1000>>

\* C10 (as claimed): the round trip returns every component within 1e-3
\* relative tolerance, for every frame of positive width and height
C10_RoundTripRelative ==
  RoundTripped =>
    /\ WithinRelative(back.x, normalized.x, Thousandth)
    /\ WithinRelative(back.y, normalized.y, Thousandth)
    /\ WithinRelative(back.w, normalized.w, Thousandth)
    /\ WithinRelative(back.h, normalized.h, Thousandth)

\* C10 (amended): the round trip returns every component within 1e-3 absolute
\* tolerance, for every frame at least 500 wide and 500 high
C10_RoundTripAbsolute ==
  (RoundTripped /\ screenFrame.w >= 500 /\ screenFrame.h >= 500) =>
    /\ WithinAbsolute(back.x, normalized.x, Thousandth)
    /\ WithinAbsolute(back.y, normalized.y, Thousandth)
    /\ WithinAbsolute(back.w, normalized.w, Thousandth)
    /\ WithinAbsolute(back.h, normalized.h, Thousandth)

\* a round trip on a 500-wide frame in which rounding moved x and w
C10_Witness ==
  /\ RoundTripped /\ screenFrame.w = 500 /\ screenFrame.h >= 500
  /\ back.x[1] * normalized.x[2] # normalized.x[1] * back.x[2]
  /\ back.w[1] * normalized.w[2] # normalized.w[1] * back.w[2]

\* ───── save.command.ts: the interactive save, then a match of what it built ──
SkipRole == "__skip__"

\* `displayRoleAssignments[result] = screen`: a name already assigned keeps its
\* place among the entries and takes the new screen
AssignRole(assignments, name, screen) ==
  IF \E i \in 1..Len(assignments) : assignments[i].name = name
  THEN [i \in 1..Len(assignments) |->
          IF assignments[i].name = name
          THEN [name |-> name, screen |-> screen] ELSE assignments[i]]
  ELSE Append(assignments, [name |-> name, screen |-> screen])

\* step 4b: one answer per screen, in snapshot order
RECURSIVE AssignRoles(_, _, _)
AssignRoles(screenList, picks, assignments) ==
  IF screenList = <<>> THEN assignments
  ELSE AssignRoles(Tail(screenList), Tail(picks),
         IF Head(picks) = SkipRole THEN assignments
         ELSE AssignRole(assignments, Head(picks), Head(screenList)))

\* step 3: dump.windows.filter((w) => w.isStandard && !w.isMinimized)
SaveFilter(ws) ==
  LET Kept(w) == w.isStandard /\ ~w.isMinimized IN SelectSeq(ws, Kept)

\* step 4c: windows.filter((w) => selectedIds.includes(w.id))
SelectByIds(ws, selectedIds) ==
  LET Chosen(w) == w.id \in selectedIds IN SelectSeq(ws, Chosen)

SaveApps == WinApps
SaveFlags == { <<TRUE, FALSE>>, <<TRUE, TRUE>> }
SaveLooks == { <<0, 0, <<"b">>>>, <<1, 0, <<"a", "b">>>> }
SaveScreenLists ==
  { sl \in UNION { ScreenLists(n) : n \in 1..MaxScreens } :
      \A i \in 1..Len(sl) :
        /\ sl[i].fullFrame.w = 4
        /\ sl[i].name = (IF i = 1 THEN <<"L">> ELSE <<"L", "G">>) }
SavePicks == { RoleNames[1], RoleNames[2], SkipRole }

InitSave ==
  /\ windows \in UNION { WindowListsOf(n, SaveApps, SaveFlags, SaveLooks, {0}, ScreenIds) :
                           n \in 0..MaxWindows }
  /\ screens \in SaveScreenLists
  /\ restoreMinimized = FALSE /\ rule = NoRule
  /\ claimed = {} /\ matched = <<>> /\ skipped = <<>>
  /\ roles = <<>> /\ resolved = <<>>
  /\ RectIdle
  /\ PipeIdle
  /\ AuxIdle
  /\ phase = "start"

\* saveCommand, interactive: the answers to its prompts are the inputs
SaveCommand ==
  /\ phase = "start"
  /\ \E failure \in {"none", "runtimeUnavailable", "dump", "cancelled"} :
       IF failure # "none"
       THEN /\ exitCode' = (IF failure = "runtimeUnavailable"
                            THEN "RuntimeUnavailable" ELSE "Error")
            /\ UNCHANGED <<layout, selectedWindows, displayRoleAssignments>>
       ELSE \E picks \in [1..Len(screens) -> SavePicks],
               selectedIds \in SUBSET { w.id : w \in Range(SaveFilter(windows)) } :
              LET assignments == AssignRoles(screens, picks, <<>>)
                  selected == SelectByIds(SaveFilter(windows), selectedIds)
              IN  /\ displayRoleAssignments' = assignments
                  /\ selectedWindows' = selected
                  /\ layout' = buildLayout(selected, assignments)
                  /\ exitCode' = "Success"
  /\ phase' = "saveCommand"
  /\ UNCHANGED auxVars
  /\ UNCHANGED <<plannedMoves, displaySkips, luaMoves, luaSkipped, options, fault, calls,
                 sentMoves>>
  /\ UNCHANGED matchVars
  /\ UNCHANGED resolveVars
  /\ UNCHANGED rectVars

\* matchWindows(layout.windows, dump.windows, {}) on the snapshot save was given
MatchSavedLayout ==
  /\ phase = "saveCommand"
  /\ exitCode = "Success"
  /\ LET out == matchWindows(layout.windows, windows, FALSE)
     IN  /\ claimed' = { m.windowId : m \in Range(out.matched) }
         /\ matched' = out.matched
         /\ skipped' = out.skipped
  /\ phase' = "matchSavedLayout"
  /\ UNCHANGED auxVars
  /\ UNCHANGED <<windows, restoreMinimized, rule>>
  /\ UNCHANGED resolveVars
  /\ UNCHANGED rectVars
  /\ UNCHANGED pipeVars

NextSave == SaveCommand \/ MatchSavedLayout

SpecSave == InitSave /\ [][NextSave]_vars

\* the selected windows a rule was built from, in rule order
BuiltFrom ==
  LET HasRole(w) == screenIdToRole(displayRoleAssignments, w.screenId) # Undefined
  IN  SelectSeq(selectedWindows, HasRole)

\* C3: matching the layout save built against the snapshot it was built from
\* matches every rule, in order, to the selected window it was built from, and
\* skips no rule.
C3_RoundTrip ==
  phase = "matchSavedLayout" =>
    /\ skipped = <<>>
    /\ matched = [k \in 1..Len(BuiltFrom) |-> Match(layout.windows[k], BuiltFrom[k])]

\* ───── apply.command.ts and the generated program on the same snapshot ──────
ApplyRoleLists ==
  { rl \in RoleLists(MaxRoles) :
      \A i \in 1..Len(rl) :
        /\ rl[i].fallback = Undefined
        /\ rl[i].match \in { m \in DisplayMatches :
                               m.kind \in {"primary", "builtin", "externalByIndex"}
                               /\ m.index = 0 } }
ApplyScreenLists ==
  { sl \in ScreenLists(MaxScreens) :
      /\ sl[1].isPrimary /\ ~sl[1].isBuiltin
      /\ \A i \in 1..Len(sl) : sl[i].fullFrame.w = 4 /\ sl[i].name = <<"L">> }
ApplyApps == { [bundleId |-> "B1", name |-> "N1"] }
ApplyRules(id) ==
  { r \in RuleDomain(id, {RoleNames[1], RoleNames[2]}) :
      /\ r.app \in { [bundleId |-> "B1", name |-> Undefined],
                     [bundleId |-> Undefined, name |-> "N2"] }
      /\ r.match.kind \in {"all", "mainWindow", "byIndex"}
      /\ r.match.index = 0
      /\ r.hasLimit => r.limit = MaxLimit }
ApplyRuleLists(n) ==
  { [i \in 1..n |-> rs[i]] : rs \in [1..n -> UNION { ApplyRules(i) : i \in 1..n }] }
Layouts ==
  { [displayRoles |-> rl, windows |-> rs,
     options |-> [restoreMinimized |-> rm, dockDisplay |-> dock]] :
      rl \in ApplyRoleLists,
      rs \in { l \in UNION { ApplyRuleLists(n) : n \in 1..MaxRules } :
                 \A i \in 1..Len(l) : l[i].id = i },
      rm \in BOOLEAN, dock \in {Undefined, RoleNames[1]} }

InitApply ==
  /\ layout \in Layouts
  /\ screens \in ApplyScreenLists
  /\ windows \in UNION { WindowListsOf(n, ApplyApps, SaveFlags, {<<0, 0, <<"b">>>>}, {0, 1}, {"s1"}) :
                           n \in 1..MaxWindows }
  /\ restoreMinimized = FALSE /\ rule = NoRule
  /\ claimed = {} /\ matched = <<>> /\ skipped = <<>>
  /\ roles = <<>> /\ resolved = <<>>
  /\ RectIdle
  /\ selectedWindows = <<>> /\ displayRoleAssignments = <<>>
  /\ plannedMoves = <<>> /\ displaySkips = <<>>
  /\ luaMoves = <<>> /\ luaSkipped = <<>> /\ exitCode = "none"
  /\ options \in { [dryRun |-> d, strict |-> FALSE] : d \in BOOLEAN }
  /\ fault = {} /\ calls = <<>> /\ sentMoves = <<>>
  /\ AuxIdle
  /\ phase = "start"

\* (mutant) Hammerspoon is asked whether it is available before the layout is
\* loaded
ApplyCallsEager(failing, dryRun) ==
  IF "loadLayout" \in failing THEN <<"isAvailable", "loadLayout">>
  ELSE IF "isAvailable" \in failing THEN <<"loadLayout", "isAvailable">>
  ELSE IF "dump" \in failing \/ dryRun THEN <<"loadLayout", "isAvailable", "dump">>
  ELSE <<"loadLayout", "isAvailable", "dump", "runLua">>

\* the calls applyCommand makes before it returns: it stops at the first step
\* that fails, and a dry run returns before runLua
ApplyCalls(failing, dryRun) ==
  IF "loadLayout" \in failing THEN <<"loadLayout">>
  ELSE IF "isAvailable" \in failing THEN <<"loadLayout", "isAvailable">>
  ELSE IF "dump" \in failing \/ dryRun THEN <<"loadLayout", "isAvailable", "dump">>
  ELSE <<"loadLayout", "isAvailable", "dump", "runLua">>

\* the exit code applyCommand returns; options.strict is never read
ApplyExitCode(failing, dryRun) ==
  IF "loadLayout" \in failing THEN "LayoutInvalid"
  ELSE IF "isAvailable" \in failing THEN "RuntimeUnavailable"
  ELSE IF "dump" \in failing THEN "Error"
  ELSE IF dryRun THEN "Success"
  ELSE IF "runLua" \in failing \/ "parse" \in failing THEN "Error"
  ELSE "Success"

\* steps 1 to 3 went through: the command reaches steps 4 to 6
ReachesPlan(failing) == failing \cap {"loadLayout", "isAvailable", "dump"} = {}

\* step 8: plannedMoves.map((m) => ({ windowId: m.windowId, frame: m.frame }))
ApplyMoves(planned) ==
  [i \in 1..Len(planned) |-> [windowId |-> planned[i].windowId, frame |-> planned[i].frame]]

\* applyCommand: `fault` holds the steps that fail when they are reached
ApplyCommand ==
  /\ phase = "start"
  /\ IF ~ReachesPlan(fault)
     THEN UNCHANGED <<resolved, claimed, matched, skipped, plannedMoves, displaySkips,
                      sentMoves>>
     ELSE LET resolvedRoles == resolveDisplayRoles(layout.displayRoles, screens)
              out == matchWindows(layout.windows, windows, layout.options.restoreMinimized)
              plan == PlanLoop(out.matched, layout.windows, resolvedRoles,
                               layout.options.dockDisplay,
                               [plannedMoves |-> <<>>, displaySkips |-> <<>>])
          IN  /\ resolved' = resolvedRoles
              /\ claimed' = { m.windowId : m \in Range(out.matched) }
              /\ matched' = out.matched
              /\ skipped' = out.skipped
              /\ plannedMoves' = plan.plannedMoves
              /\ displaySkips' = plan.displaySkips
              /\ sentMoves' = (IF options.dryRun THEN <<>> ELSE ApplyMoves(plan.plannedMoves))
  /\ calls' = ApplyCalls(fault, options.dryRun)
  /\ exitCode' = ApplyExitCode(fault, options.dryRun)
  /\ phase' = "applyCommand"
  /\ UNCHANGED auxVars
  /\ UNCHANGED <<windows, restoreMinimized, rule, screens, roles>>
  /\ UNCHANGED <<layout, selectedWindows, displayRoleAssignments, luaMoves, luaSkipped,
                 options, fault>>
  /\ UNCHANGED rectVars

\* the generated program of the same layout, run on the same snapshot
RunGeneratedProgram ==
  /\ phase = "applyCommand"
  /\ exitCode = "Success"
  /\ \E resolvedDisplays \in luaResolveDisplayRoles(layout.displayRoles, screens) :
       LET moves == luaMatchWindows(layout.windows,
                      collectWindows(windows, layout.options.restoreMinimized),
                      resolvedDisplays)
       IN  /\ luaMoves' = moves
           /\ luaSkipped' = luaSkips(layout.windows, moves)
  /\ phase' = "generatedProgram"
  /\ UNCHANGED auxVars
  /\ UNCHANGED <<layout, selectedWindows, displayRoleAssignments, plannedMoves,
                 displaySkips, exitCode, options, fault, calls, sentMoves>>
  /\ UNCHANGED matchVars
  /\ UNCHANGED resolveVars
  /\ UNCHANGED rectVars

NextApply == ApplyCommand \/ RunGeneratedProgram

SpecApply == InitApply /\ [][NextApply]_vars

MovePairs(moves) == { <<m.ruleId, m.windowId>> : m \in Range(moves) }

\* C4: on the same layout and snapshot the generated program selects the same
\* set of (rule id, window id) moves as the in-process apply pipeline.
C4_LuaSelectsSameMoves ==
  phase = "generatedProgram" => MovePairs(luaMoves) = MovePairs(plannedMoves)

\* the reasons the in-process evaluator gives for a rule
InProcessReasons(ruleId) ==
  { s.reason : s \in { t \in Range(skipped) \cup Range(displaySkips) : t.ruleId = ruleId } }

\* C5: for every rule without a placement the generated program reports a skip
\* carrying the reason the in-process evaluator gives.
C5_LuaReportsSkips ==
  phase = "generatedProgram" =>
    \A r \in Range(layout.windows) :
      (\A m \in Range(luaMoves) : m.ruleId # r.id) =>
        \E s \in Range(luaSkipped) :
          s.ruleId = r.id /\ s.reason \in InProcessReasons(r.id)

\* ───── applyCommand under every option and every failing step ───────────────
CommandRules(id) ==
  { [r EXCEPT !.required = q] :
      r \in { x \in ApplyRules(id) : x.match.kind = "mainWindow" }, q \in BOOLEAN }
CommandRuleLists(n) == [1..n -> UNION { CommandRules(i) : i \in 1..n }]
CommandLayouts ==
  { [displayRoles |-> rl, windows |-> rs,
     options |-> [restoreMinimized |-> FALSE, dockDisplay |-> Undefined]] :
      rl \in { l \in ApplyRoleLists :
                 \A i \in 1..Len(l) : l[i].match.kind \in {"primary", "builtin"} },
      rs \in { l \in UNION { CommandRuleLists(n) : n \in 1..MaxRules } :
                 \A i \in 1..Len(l) : l[i].id = i } }
MaxFaults == 2
Steps == {"loadLayout", "isAvailable", "dump", "runLua", "parse"}
Faults == { f \in SUBSET Steps : Cardinality(f) <= MaxFaults }

InitCommand ==
  /\ layout \in CommandLayouts
  /\ screens \in ApplyScreenLists
  /\ windows \in UNION { WindowListsOf(n, ApplyApps, SaveFlags, {<<0, 0, <<"b">>>>}, {0, 1}, {"s1"}) :
                           n \in 1..MaxWindows }
  /\ options \in [dryRun : BOOLEAN, strict : BOOLEAN]
  /\ fault \in Faults
  /\ restoreMinimized = FALSE /\ rule = NoRule
  /\ claimed = {} /\ matched = <<>> /\ skipped = <<>>
  /\ roles = <<>> /\ resolved = <<>>
  /\ RectIdle
  /\ selectedWindows = <<>> /\ displayRoleAssignments = <<>>
  /\ plannedMoves = <<>> /\ displaySkips = <<>>
  /\ luaMoves = <<>> /\ luaSkipped = <<>> /\ exitCode = "none"
  /\ calls = <<>> /\ sentMoves = <<>>
  /\ AuxIdle
  /\ phase = "start"

SpecCommand == InitCommand /\ [][NextApply]_vars

\* the ids of the rules applyCommand skipped, in matchWindows or in step 6
SkippedRuleIds == { s.ruleId : s \in Range(skipped) \cup Range(displaySkips) }

\* C11: with strict set, applyCommand returns StrictFailure whenever a rule
\* marked required was skipped.
C11_StrictFailure ==
  (/\ phase = "applyCommand"
   /\ options.strict
   /\ \E r \in Range(layout.windows) : r.required /\ r.id \in SkippedRuleIds)
  => exitCode = "StrictFailure"

\* the display role of the rule a matched entry belongs to is unresolved
RoleUnresolved(m) ==
  ResolvedScreen(resolved, ruleMapGet(layout.windows, m.ruleId).place.display) = NoScreen

\* C12: when every step succeeds, a matched rule whose display role resolved to
\* none gets no planned move and a skip with reason displayRoleUnresolved, the
\* command returns Success, and the script handed to runLua holds exactly the
\* moves of the matched rules whose role resolved.
C12_UnresolvedRoleIsSkipped ==
  (phase = "applyCommand" /\ fault = {}) =>
    /\ exitCode = "Success"
    /\ \A m \in Range(matched) :
         RoleUnresolved(m) =>
           /\ \A pm \in Range(plannedMoves) : pm.ruleId # m.ruleId
           /\ \E s \in Range(displaySkips) :
                s.ruleId = m.ruleId /\ s.reason = "displayRoleUnresolved"
    /\ ~options.dryRun =>
         { sm.windowId : sm \in Range(sentMoves) }
           = { m.windowId : m \in { x \in Range(matched) : ~RoleUnresolved(x) } }

C12_Witness ==
  /\ phase = "applyCommand" /\ fault = {} /\ ~options.dryRun
  /\ \E m \in Range(matched) : RoleUnresolved(m)
  /\ sentMoves # <<>>

\* C13: the rule ids of a layout returned by buildLayout are pairwise distinct.
C13_RuleIdsDistinct ==
  (phase = "saveCommand" /\ exitCode = "Success") =>
    \A i, j \in 1..Len(layout.windows) :
      i # j => layout.windows[i].id # layout.windows[j].id

Count(seq, x) == Cardinality({ i \in 1..Len(seq) : seq[i] = x })
HammerspoonCalls == {"isAvailable", "dump", "runLua"}

\* C14: applyCommand stops at the first failing step: a failed load returns
\* LayoutInvalid without any call to Hammerspoon, a failed availability check
\* returns RuntimeUnavailable before any dump, a failed dump returns Error
\* before any move; a dry run returns Success without calling runLua, and
\* otherwise runLua is called exactly once.
C14_StepsInOrder ==
  phase = "applyCommand" =>
    IF "loadLayout" \in fault
    THEN exitCode = "LayoutInvalid" /\ \A c \in Range(calls) : c \notin HammerspoonCalls
    ELSE IF "isAvailable" \in fault
    THEN exitCode = "RuntimeUnavailable" /\ Count(calls, "dump") = 0
                                         /\ Count(calls, "runLua") = 0
    ELSE IF "dump" \in fault
    THEN exitCode = "Error" /\ Count(calls, "runLua") = 0 /\ sentMoves = <<>>
    ELSE IF options.dryRun
    THEN exitCode = "Success" /\ Count(calls, "runLua") = 0
    ELSE Count(calls, "runLua") = 1

C14_Witness ==
  /\ phase = "applyCommand"
  /\ fault = {"loadLayout", "dump"}
  /\ calls = <<"loadLayout">>

C14_WitnessDryRun ==
  /\ phase = "applyCommand"
  /\ fault = {"runLua"} /\ options.dryRun
  /\ exitCode = "Success" /\ plannedMoves # <<>>

\* ───── layout-loader.ts ──────────────────────────────────────────────────────
MaxKeys == 2

\* JSON values as far as isValidLayout looks at them: the type, the text of a
\* string, the number of keys of an object or of elements of an array
Absent == [type |-> "undefined", text |-> "", keys |-> 0]
JsonNull == [type |-> "null", text |-> "", keys |-> 0]
JsonString(t) == [type |-> "string", text |-> t, keys |-> 0]
JsonNumber(t) == [type |-> "number", text |-> t, keys |-> 0]
JsonObject(k) == [type |-> "object", text |-> "", keys |-> k]
JsonArray(k) == [type |-> "array", text |-> "", keys |-> k]

\* typeof v
typeOf(v) == IF v.type \in {"null", "array", "object"} THEN "object" ELSE v.type

\* (mutant) a layout without any display role is accepted
isValidLayoutAnyRoles(parsed) ==
  IF typeOf(parsed) # "object" \/ parsed.type = "null" \/ parsed.type = "array" THEN FALSE
  ELSE IF parsed.version # JsonString("0.1") THEN FALSE
  ELSE IF typeOf(parsed.name) # "string" THEN FALSE
  ELSE IF \/ typeOf(parsed.displayRoles) # "object"
          \/ parsed.displayRoles.type = "null"
          \/ parsed.displayRoles.type = "array"
       THEN FALSE
  ELSE IF parsed.windows.type # "array" THEN FALSE
  ELSE TRUE

\* isValidLayout(parsed)
isValidLayout(parsed) ==
  IF typeOf(parsed) # "object" \/ parsed.type = "null" \/ parsed.type = "array" THEN FALSE
  ELSE IF parsed.version # JsonString("0.1") THEN FALSE
  ELSE IF typeOf(parsed.name) # "string" THEN FALSE
  ELSE IF \/ typeOf(parsed.displayRoles) # "object"
          \/ parsed.displayRoles.type = "null"
          \/ parsed.displayRoles.type = "array"
          \/ parsed.displayRoles.keys = 0
       THEN FALSE
  ELSE IF parsed.windows.type # "array" THEN FALSE
  ELSE TRUE

\* loadLayout(name, layoutsDir) on what the file of that name holds
loadLayout(f) ==
  IF f.state = "missing" THEN [ok |-> FALSE, error |-> "Layout not found"]
  ELSE IF f.state = "text" THEN [ok |-> FALSE, error |-> "Invalid JSON in layout file"]
  ELSE IF ~isValidLayout(f.value) THEN [ok |-> FALSE, error |-> "missing required fields"]
  ELSE [ok |-> TRUE, error |-> "none"]

\* the top-level values a file can parse to
Parsed(type, version, name, displayRoles, windowList) ==
  [type |-> type, version |-> version, name |-> name, displayRoles |-> displayRoles,
   windows |-> windowList]
JsonValues ==
  { Parsed(t, Absent, Absent, Absent, Absent) : t \in {"null", "array", "string", "number"} }
  \cup
  { Parsed("object", v, n, d, w) :
      v \in { Absent, JsonString("0.1"), JsonString("0.2"), JsonNumber("0.1") },
      n \in { Absent, JsonNull, JsonString("x"), JsonNumber("1") },
      d \in { Absent, JsonNull, JsonString("x") }
              \cup { JsonArray(k) : k \in 0..1 } \cup { JsonObject(k) : k \in 0..MaxKeys },
      w \in { Absent, JsonNull, JsonObject(0) } \cup { JsonArray(k) : k \in 0..1 } }
Files ==
  { [state |-> "missing"], [state |-> "text"] }
  \cup { [state |-> "json", value |-> v] : v \in JsonValues }

InitLoad ==
  /\ file \in Files
  /\ loadResult = NoResult
  /\ now = 0 /\ lastRun = 0 /\ runs = <<>> /\ pending = FALSE
  /\ resolvedAgain = <<>> /\ matchedAgain = <<>> /\ skippedAgain = <<>>
  /\ luaResolved = <<>>
  /\ timerDue = NoTimer /\ applied = <<>>
  /\ MatchIdle
  /\ ResolveIdle
  /\ RectIdle
  /\ PipeIdle
  /\ phase = "start"

LoadLayoutCall ==
  /\ phase = "start"
  /\ loadResult' = loadLayout(file)
  /\ phase' = "loadLayout"
  /\ UNCHANGED <<file, now, lastRun, runs, pending, resolvedAgain, matchedAgain,
                 skippedAgain, luaResolved, timerDue, applied>>
  /\ UNCHANGED matchVars
  /\ UNCHANGED resolveVars
  /\ UNCHANGED rectVars
  /\ UNCHANGED pipeVars

NextLoad == LoadLayoutCall

SpecLoad == InitLoad /\ [][NextLoad]_vars

\* what the claim asks of an accepted file
WellFormed(f) ==
  /\ f.state = "json"
  /\ f.value.type = "object"
  /\ f.value.version.type = "string" /\ f.value.version.text = "0.1"
  /\ f.value.name.type = "string"
  /\ f.value.displayRoles.type = "object" /\ f.value.displayRoles.keys >= 1
  /\ f.value.windows.type = "array"

\* C15: loadLayout returns ok:true exactly for a readable file that parses to
\* an object with version "0.1", a string name, a non-array displayRoles object
\* of at least one role and an array windows; every other file gives ok:false
\* with the message of its case (not found, invalid JSON, missing fields).
C15_LoadLayoutResult ==
  phase = "loadLayout" =>
    /\ loadResult.ok <=> WellFormed(file)
    /\ loadResult.ok => loadResult.error = "none"
    /\ ~loadResult.ok =>
         loadResult.error =
           (IF file.state = "missing" THEN "Layout not found"
            ELSE IF file.state = "text" THEN "Invalid JSON in layout file"
            ELSE "missing required fields")

C15_Witness ==
  /\ phase = "loadLayout"
  /\ file.state = "json" /\ file.value.type = "object"
  /\ file.value.version = JsonString("0.1") /\ file.value.name = JsonString("x")
  /\ file.value.windows = JsonArray(0)
  /\ file.value.displayRoles = JsonObject(0)
  /\ ~loadResult.ok

\* ───── The init snippet written by compile: the debounced trigger ────────────
\* Time is counted in tenths of a second.
DebounceTenths == 20
MaxTime == 65

\* the entry of the generated program: it nudges the Dock when
\* LAYOUT.options.dockDisplay names a role that resolved to a screen
NudgesDock(l, screenList) ==
  /\ l.options.dockDisplay # Undefined
  /\ \E res \in luaResolveDisplayRoles(l.displayRoles, screenList) :
       ResolvedScreen(res, l.options.dockDisplay) # NoScreen

\* _mlApply_<name>(): the callback bound to the hotkey and to the screen watcher;
\* `stillDue` tells whether a notification of an earlier nudge stays due
Callback(cause, stillDue) ==
  IF now - lastRun < DebounceTenths
  THEN /\ UNCHANGED <<lastRun, runs>>
       /\ pending' = stillDue
  ELSE /\ lastRun' = now
       /\ runs' = Append(runs, [at |-> now, cause |-> cause])
       /\ pending' = (stillDue \/ NudgesDock(layout, screens))

TriggerLayouts ==
  { [displayRoles |-> rl, windows |-> <<>>,
     options |-> [restoreMinimized |-> FALSE, dockDisplay |-> dock]] :
      rl \in { l \in RoleLists(1) :
                 l[1].fallback = Undefined /\ l[1].match.kind \in {"primary", "builtin"} },
      dock \in {Undefined, RoleNames[1]} }

InitTrigger ==
  /\ layout \in TriggerLayouts
  /\ screens \in ApplyScreenLists
  /\ now = DebounceTenths /\ lastRun = 0 /\ runs = <<>> /\ pending = FALSE
  /\ file = NoFile /\ loadResult = NoResult
  /\ resolvedAgain = <<>> /\ matchedAgain = <<>> /\ skippedAgain = <<>>
  /\ luaResolved = <<>>
  /\ timerDue = NoTimer /\ applied = <<>>
  /\ MatchIdle
  /\ roles = <<>> /\ resolved = <<>>
  /\ RectIdle
  /\ selectedWindows = <<>> /\ displayRoleAssignments = <<>>
  /\ plannedMoves = <<>> /\ displaySkips = <<>>
  /\ luaMoves = <<>> /\ luaSkipped = <<>> /\ exitCode = "none"
  /\ options = NoOptions /\ fault = {} /\ calls = <<>> /\ sentMoves = <<>>
  /\ phase = "start"

TriggerFrame ==
  /\ UNCHANGED <<file, loadResult, resolvedAgain, matchedAgain, skippedAgain, luaResolved,
                 timerDue, applied>>
  /\ UNCHANGED matchVars
  /\ UNCHANGED resolveVars
  /\ UNCHANGED rectVars
  /\ UNCHANGED pipeVars

\* time passes
Tick ==
  /\ now < MaxTime
  /\ now' = now + 1
  /\ phase' = "tick"
  /\ UNCHANGED <<lastRun, runs, pending>>
  /\ TriggerFrame

\* the hotkey is pressed
Hotkey ==
  /\ Callback("hotkey", pending)
  /\ phase' = "hotkey"
  /\ UNCHANGED now
  /\ TriggerFrame

\* the screen watcher fires for a change the program did not cause
ScreenChange ==
  /\ Callback("screen", pending)
  /\ phase' = "screenChange"
  /\ UNCHANGED now
  /\ TriggerFrame

\* the screen watcher fires for the Dock nudge of an earlier run
NudgeNotification ==
  /\ pending
  /\ Callback("nudge", FALSE)
  /\ phase' = "nudgeNotification"
  /\ UNCHANGED now
  /\ TriggerFrame

NextTrigger == Tick \/ Hotkey \/ ScreenChange \/ NudgeNotification

SpecTrigger == InitTrigger /\ [][NextTrigger]_vars

\* any two runs of the program start at least 2.0 seconds apart
RunsApart ==
  \A i, j \in 1..Len(runs) : i < j => runs[j].at - runs[i].at >= DebounceTenths

\* C16: any two runs of the layout program start at least 2.0 seconds apart,
\* and the screen-change notification of the program's own Dock nudge never
\* runs the program again.
C16_DebounceStopsNudgeLoop ==
  /\ RunsApart
  /\ \A i \in 1..Len(runs) : runs[i].cause # "nudge"

\* the rect {x: 0, y: 0, w: 1, h: 1}
UnitRect == [x |-> <<0, Grid>>, y |-> <<0, Grid>>, w |-> <<Grid, Grid>>, h |-> <<Grid, Grid>>]

\* C17: normalizedToAbsolute of the rect {x: 0, y: 0, w: 1, h: 1} returns the
\* frame itself.
C17_UnitRectGivesFrame ==
  (phase = "normalizedToAbsolute" /\ normalized = UnitRect) => absolute = screenFrame

C17_Witness ==
  /\ phase = "normalizedToAbsolute" /\ normalized = UnitRect
  /\ screenFrame = [x |-> 0, y |-> 30, w |-> 3840, h |-> 2130]
  /\ absolute = screenFrame

\* ───── The resolver and the matcher called twice on the same arguments ──────
\* (mutant) the resolver splices the array it is given instead of a copy
ScreensLeftInPlace(roleList, screenList) ==
  ResolveLoop(roleList, [pool |-> screenList, resolved |-> <<>>]).pool

\* the caller's screen array after resolveDisplayRoles: `pool = [...screens]`
\* is a copy, the array itself is left as it was
ScreensLeft(roleList, screenList) == screenList

\* the caller's window array after matchWindows: the pools are new arrays and
\* sortWindows sorts a copy
WindowsLeft(rules, ws, restoreMin) == ws

RerunRules ==
  { l \in UNION { ApplyRuleLists(n) : n \in 1..MaxRules } : \A i \in 1..Len(l) : l[i].id = i }

InitRerun ==
  /\ \/ /\ screens \in UNION { ScreenLists(n) : n \in 1..MaxScreens }
        /\ roles \in UNION { RoleLists(n) : n \in 1..MaxRoles }
        /\ windows = <<>> /\ restoreMinimized = FALSE /\ layout = NoLayout
     \/ /\ screens = <<>> /\ roles = <<>>
        /\ windows \in UNION { WindowListsOf(n, WinApps, SaveFlags, SaveLooks, {0, 1}, {"s1"}) :
                                 n \in 1..MaxWindows }
        /\ restoreMinimized \in BOOLEAN
        /\ layout \in { [NoLayout EXCEPT !.windows = rs] : rs \in RerunRules }
  /\ rule = NoRule /\ claimed = {} /\ matched = <<>> /\ skipped = <<>>
  /\ resolved = <<>>
  /\ RectIdle
  /\ selectedWindows = <<>> /\ displayRoleAssignments = <<>>
  /\ plannedMoves = <<>> /\ displaySkips = <<>>
  /\ luaMoves = <<>> /\ luaSkipped = <<>> /\ exitCode = "none"
  /\ options = NoOptions /\ fault = {} /\ calls = <<>> /\ sentMoves = <<>>
  /\ AuxIdle
  /\ phase = "start"

RerunFrame ==
  /\ UNCHANGED <<restoreMinimized, rule, roles>>
  /\ UNCHANGED <<file, loadResult, now, lastRun, runs, pending, luaResolved,
                 timerDue, applied>>
  /\ UNCHANGED rectVars
  /\ UNCHANGED pipeVars

\* resolveDisplayRoles(roles, screens) and matchWindows(rules, windows, options)
FirstCalls ==
  /\ phase = "start"
  /\ LET out == matchWindows(layout.windows, windows, restoreMinimized)
     IN  /\ resolved' = resolveDisplayRoles(roles, screens)
         /\ screens' = ScreensLeft(roles, screens)
         /\ matched' = out.matched
         /\ skipped' = out.skipped
         /\ claimed' = { m.windowId : m \in Range(out.matched) }
         /\ windows' = WindowsLeft(layout.windows, windows, restoreMinimized)
  /\ phase' = "firstCalls"
  /\ UNCHANGED <<resolvedAgain, matchedAgain, skippedAgain>>
  /\ RerunFrame

\* the same two calls again, on the arrays the first calls were given
SecondCalls ==
  /\ phase = "firstCalls"
  /\ LET out == matchWindows(layout.windows, windows, restoreMinimized)
     IN  /\ resolvedAgain' = resolveDisplayRoles(roles, screens)
         /\ screens' = ScreensLeft(roles, screens)
         /\ matchedAgain' = out.matched
         /\ skippedAgain' = out.skipped
         /\ windows' = WindowsLeft(layout.windows, windows, restoreMinimized)
  /\ phase' = "secondCalls"
  /\ UNCHANGED <<resolved, matched, skipped, claimed>>
  /\ RerunFrame

NextRerun == FirstCalls \/ SecondCalls

SpecRerun == InitRerun /\ [][NextRerun]_vars

PoolOrder(s) == CHOOSE k \in 1..Len(screens) : screens[k] = s

\* the unclaimed non-builtin screens role i is matched against
ExternalsBefore(i) == { s \in PoolBefore(i) : ~s.isBuiltin }

\* the screens of ext that come before s in descending-area order, screens of
\* equal area in pool order
AheadOf(s, ext) ==
  { t \in ext : \/ area(t.fullFrame) > area(s.fullFrame)
                \/ (area(t.fullFrame) = area(s.fullFrame) /\ PoolOrder(t) < PoolOrder(s)) }

\* the screens the claim names for a matcher over the externals ext
ExpectedExternal(match, ext) ==
  CASE match.kind = "largestExternal" ->
         { s \in ext : \A t \in ext :
             \/ area(t.fullFrame) < area(s.fullFrame)
             \/ (area(t.fullFrame) = area(s.fullFrame) /\ PoolOrder(s) <= PoolOrder(t)) }
    [] match.kind = "smallestExternal" ->
         { s \in ext : \A t \in ext :
             \/ area(t.fullFrame) > area(s.fullFrame)
             \/ (area(t.fullFrame) = area(s.fullFrame) /\ PoolOrder(t) <= PoolOrder(s)) }
    [] match.kind = "externalByIndex" ->
         { s \in ext : Cardinality(AheadOf(s, ext)) = match.index }
    [] OTHER -> {}

ExternalKinds == {"largestExternal", "smallestExternal", "externalByIndex"}

\* C19: over the unclaimed non-builtin screens, largestExternal takes the first
\* one in pool order of maximum full-frame area, smallestExternal the last one
\* in pool order of minimum area, externalByIndex i the i-th one in
\* descending-area order with equal areas in pool order; when there is no such
\* screen (no unclaimed external, index out of range) the matcher finds
\* nothing and a role without fallback resolves to none
C19_ExternalTieBreaks ==
  Resolved =>
    \A i \in RoleIndexes :
      roles[i].match.kind \in ExternalKinds =>
        LET named == ExpectedExternal(roles[i].match, ExternalsBefore(i))
        IN  /\ Cardinality(named) <= 1
            /\ named # {} => ValueOf(i) \in named
            /\ named = {} => ~Satisfiable(roles[i].match, PoolBefore(i))
            /\ (named = {} /\ roles[i].fallback = Undefined) => ValueOf(i) = NoScreen

\* two externals of equal area: smallestExternal took the later one and
\* largestExternal, declared after it, the remaining one
C19_Witness ==
  /\ Resolved /\ Len(roles) = 2 /\ Len(screens) = 2
  /\ ~screens[1].isBuiltin /\ ~screens[2].isBuiltin
  /\ area(screens[1].fullFrame) = area(screens[2].fullFrame)
  /\ roles[1].match.kind = "smallestExternal" /\ ValueOf(1) = screens[2]
  /\ roles[2].match.kind = "largestExternal" /\ ValueOf(2) = screens[1]

\* two externals of equal area: externalByIndex 0 took the earlier one and
\* externalByIndex 1, out of range by then, resolved to none
C19_WitnessByIndex ==
  /\ Resolved /\ Len(roles) = 2 /\ Len(screens) = 2
  /\ ~screens[1].isBuiltin /\ ~screens[2].isBuiltin
  /\ area(screens[1].fullFrame) = area(screens[2].fullFrame)
  /\ roles[1].match.kind = "externalByIndex" /\ roles[1].match.index = 0
  /\ ValueOf(1) = screens[1]
  /\ roles[2].match.kind = "externalByIndex" /\ roles[2].match.index = 1
  /\ roles[2].fallback = Undefined /\ ValueOf(2) = NoScreen


\* ───── The generated program's resolver beside the in-process one ───────────
\* resolveDisplayRoles(LAYOUT.displayRoles, screens) of the generated program,
\* on the role list and the snapshot the in-process resolver was given
LuaResolveDisplayRolesCall ==
  /\ phase = "resolveDisplayRoles"
  /\ luaResolved' \in luaResolveDisplayRoles(roles, screens)
  /\ phase' = "luaResolveDisplayRoles"
  /\ UNCHANGED <<file, loadResult, now, lastRun, runs, pending,
                 resolvedAgain, matchedAgain, skippedAgain, timerDue, applied>>
  /\ UNCHANGED resolveVars
  /\ UNCHANGED matchVars
  /\ UNCHANGED rectVars
  /\ UNCHANGED pipeVars

NextResolveLua == ResolveDisplayRolesCall \/ LuaResolveDisplayRolesCall

SpecResolveLua == InitResolve /\ [][NextResolveLua]_vars

\* C20: on every role list and every screen list, screens of equal area
\* included, the resolver of the generated program returns the role -> screen
\* mapping the in-process resolver returns
C20_LuaResolvesLikeInProcess ==
  phase = "luaResolveDisplayRoles" => luaResolved = resolved

\* the two resolvers agree whenever no externalByIndex role sees two unclaimed
\* externals of equal area
C20_AgreeWithoutTies ==
  (/\ phase = "luaResolveDisplayRoles"
   /\ \A i \in RoleIndexes :
        roles[i].match.kind = "externalByIndex" =>
          \A s, t \in ExternalsBefore(i) :
            area(s.fullFrame) = area(t.fullFrame) => s = t)
  => luaResolved = resolved

\* ───── More claims about matchWindows ───────────────────────────────────────
\* the first windows of S in sort order (one window, or none when S is empty)
FirstOf(S) == { w \in S : Rank(w, S) = 0 }

\* C21: a mainWindow rule claims the first window in sort order of its pool
\* that is unclaimed and focused when there is one, otherwise the first
\* unclaimed window in sort order; it is skipped with 'noMatch' only when every
\* window of its pool is already claimed
C21_MainWindowPrefersFocused ==
  [][ (RuleStep /\ rule'.match.kind = "mainWindow") =>
        LET pool == EligibleOf(rule')
            unclaimed == { w \in pool : w.id \notin claimed }
            focused == { w \in unclaimed : w.isFocused }
            pick == IF focused # {} THEN FirstOf(focused) ELSE FirstOf(unclaimed)
        IN  IF pick # {}
            THEN /\ claimed' = claimed \cup { w.id : w \in pick }
                 /\ \E w \in pick :
                      matched' = Append(matched, [ruleId |-> rule'.id, windowId |-> w.id])
                 /\ skipped' = skipped
            ELSE /\ claimed' = claimed
                 /\ matched' = matched
                 /\ Len(skipped') = Len(skipped) + 1
                 /\ skipped'[Len(skipped')].ruleId = rule'.id
                 /\ skipped'[Len(skipped')].reason = "noMatch" <=> pool # {}
    ]_vars

\* a mainWindow rule faced two unclaimed windows and took the focused one,
\* which is the second in sort order
C21_Witness ==
  /\ rule.id = 1 /\ rule.match.kind = "mainWindow"
  /\ Cardinality(EligibleOf(rule)) = 2
  /\ Len(matched) = 1
  /\ \E w \in EligibleOf(rule) :
        w.isFocused /\ Rank(w, EligibleOf(rule)) = 1 /\ claimed = {w.id}

\* a second mainWindow rule found the focused window claimed and took the
\* first unclaimed one; a third found every window claimed: 'noMatch'
C21_WitnessNoMatch ==
  /\ rule.id = 2 /\ rule.match.kind = "mainWindow"
  /\ Cardinality(EligibleOf(rule)) = 1
  /\ \A w \in EligibleOf(rule) : w.id \in claimed
  /\ Len(matched) = 1 /\ matched[1].ruleId = 1
  /\ Len(skipped) = 1 /\ skipped[1].ruleId = 2 /\ skipped[1].reason = "noMatch"

\* the windows of the snapshot that `matched` names
MatchedWindows == { w \in Range(windows) : \E i \in 1..Len(matched) : matched[i].windowId = w.id }

\* C22: no non-standard window, and no window that is minimized while
\* restoreMinimized is false, is ever in `matched`, whatever the rules; with
\* restoreMinimized true a minimized standard window is eligible like any
\* other: an 'all' rule without limit claims every standard window of its
\* application, minimized or not
C22_OnlyEligibleWindowsMatched ==
  /\ [](\A w \in MatchedWindows : w.isStandard /\ (w.isMinimized => restoreMinimized))
  /\ [][ (RuleStep /\ restoreMinimized /\ rule'.match.kind = "all" /\ ~rule'.hasLimit) =>
           \A w \in AppWindows(rule') : w.isStandard => w.id \in claimed'
       ]_vars

\* with restoreMinimized true a rule matched a minimized window although the
\* snapshot also holds a non-standard window of the same application
C22_Witness ==
  /\ restoreMinimized /\ rule # NoRule
  /\ \E w \in MatchedWindows \cap AppWindows(rule) : w.isMinimized
  /\ \E w \in AppWindows(rule) : ~w.isStandard

\* with restoreMinimized false a rule whose application has a minimized and
\* a plain window matched the plain one only
C22_WitnessSkipsMinimized ==
  /\ ~restoreMinimized /\ rule.id = 1 /\ rule.match.kind = "all"
  /\ \E w \in AppWindows(rule) : w.isMinimized /\ w.isStandard
  /\ Len(matched) = 1

\* ───── The reference frame of a planned move ────────────────────────────────
\* height of the Dock where a screen shows it at its bottom edge
DockHeights == { 0, 1 }
\* a rule's place.rect: the whole frame or its lower half
PlanRects == { FullRect, [x |-> <<0, 1>>, y |-> <<1, 2>>, w |-> <<1, 1>>, h |-> <<1, 2>>] }

\* hs.screen:frame() on a screen that shows the Dock: the usable frame ends
\* above it, the full frame does not change
WithDock(s, dock) == [s EXCEPT !.frame.h = @ - dock]

\* snapshots of one or two external screens of full frame 4 x 4 whose usable
\* frame loses the menu bar row and, where the Dock is, the Dock
PlanScreenLists ==
  { [i \in 1..n |-> WithDock(Screen(i, <<"L">>, <<4, 4>>, FALSE, i = 1), dock[i])] :
      n \in 1..MaxScreens, dock \in [1..MaxScreens -> DockHeights] }

PlanRules(id) ==
  { [r EXCEPT !.place.rect = rect] :
      r \in { q \in ApplyRules(id) : q.app.name = Undefined /\ q.match.kind = "mainWindow" },
      rect \in PlanRects }

PlanLayouts ==
  { [displayRoles |-> rl, windows |-> rs,
     options |-> [restoreMinimized |-> FALSE, dockDisplay |-> dock]] :
      rl \in { l \in ApplyRoleLists : \A i \in 1..Len(l) : l[i].match.kind # "builtin" },
      rs \in UNION { { [i \in 1..n |-> pick[i]] :
                         pick \in { p \in [1..n -> UNION { PlanRules(i) : i \in 1..n }] :
                                      \A i \in 1..n : p[i].id = i } } : n \in 1..MaxRules },
      dock \in {Undefined, RoleNames[1], RoleNames[2]} }

\* applyCommand and the generated program on screens that may show the Dock
InitPlan ==
  /\ layout \in PlanLayouts
  /\ screens \in PlanScreenLists
  /\ windows \in UNION { WindowListsOf(n, ApplyApps, {<<TRUE, FALSE>>}, {<<0, 0, <<"b">>>>},
                                       {0}, {"s1"}) : n \in 1..MaxWindows }
  /\ restoreMinimized = FALSE /\ rule = NoRule
  /\ claimed = {} /\ matched = <<>> /\ skipped = <<>>
  /\ roles = <<>> /\ resolved = <<>>
  /\ RectIdle
  /\ selectedWindows = <<>> /\ displayRoleAssignments = <<>>
  /\ plannedMoves = <<>> /\ displaySkips = <<>>
  /\ luaMoves = <<>> /\ luaSkipped = <<>> /\ exitCode = "none"
  /\ options \in { [dryRun |-> d, strict |-> FALSE] : d \in BOOLEAN }
  /\ fault = {} /\ calls = <<>> /\ sentMoves = <<>>
  /\ AuxIdle
  /\ phase = "start"

SpecPlan == InitPlan /\ [][NextApply]_vars

\* the usable frame of the screen resolved for the display role of rule id
UsableFrameOf(ruleId) ==
  resolved[ruleMapGet(layout.windows, ruleId).place.display].frame

\* C23: every planned move of the in-process apply has the frame
\* normalizedToAbsolute(rule.place.rect, F), F the usable frame (screen.frame)
\* of the screen resolved for the rule's display role, whether or not the
\* layout sets options.dockDisplay; the generated program uses the same frame
\* for the same rule
C23_PlannedFrameFromUsableFrame ==
  phase \in {"applyCommand", "generatedProgram"} =>
    /\ \A i \in 1..Len(plannedMoves) :
         plannedMoves[i].frame =
           normalizedToAbsolute(ruleMapGet(layout.windows, plannedMoves[i].ruleId).place.rect,
                                UsableFrameOf(plannedMoves[i].ruleId))
    /\ phase = "generatedProgram" =>
         \A i \in 1..Len(plannedMoves), j \in 1..Len(luaMoves) :
           plannedMoves[i].ruleId = luaMoves[j].ruleId =>
             plannedMoves[i].frame = luaMoves[j].frame

\* the claim holds for the rules that are not placed on the Dock's display role
C23_UsableFrameOffDockDisplay ==
  phase \in {"applyCommand", "generatedProgram"} =>
    \A i \in 1..Len(plannedMoves) :
      ruleMapGet(layout.windows, plannedMoves[i].ruleId).place.display
          # layout.options.dockDisplay =>
        plannedMoves[i].frame =
          normalizedToAbsolute(ruleMapGet(layout.windows, plannedMoves[i].ruleId).place.rect,
                               UsableFrameOf(plannedMoves[i].ruleId))

\* ───── buildLayout on drawn assignments ─────────────────────────────────────
MaxBuildScreens == 3   \* screens in a snapshot given to buildLayout

\* snapshots of n screens of one size: exactly one primary, at most one built in
BuildScreenLists ==
  UNION { { [i \in 1..n |-> Screen(i, name[i], <<4, 2>>, builtin = i, primary = i)] :
              name \in [1..n -> ScreenNames], builtin \in 0..n, primary \in 1..n } :
          n \in 1..MaxBuildScreens }

\* displayRoleAssignments: distinct role names given to distinct screens of the
\* snapshot, in any order of insertion
BuildAssignments(screenList) ==
  UNION { { [i \in 1..k |-> [name |-> RoleNames[nameAt[i]], screen |-> screenList[screenAt[i]]]] :
              nameAt \in { f \in [1..k -> 1..MaxBuildScreens] :
                             \A i, j \in 1..k : f[i] = f[j] => i = j },
              screenAt \in { f \in [1..k -> 1..Len(screenList)] :
                               \A i, j \in 1..k : f[i] = f[j] => i = j } } :
          k \in 0..Len(screenList) }

InitBuild ==
  /\ screens \in BuildScreenLists
  /\ displayRoleAssignments \in BuildAssignments(screens)
  /\ selectedWindows \in
       UNION { WindowListsOf(n, ApplyApps, {<<TRUE, FALSE>>}, {<<0, 0, <<"b">>>>}, {0},
                             { ScreenIdOf[i] : i \in 1..MaxBuildScreens }) : n \in 0..1 }
  /\ layout = NoLayout
  /\ roles = <<>> /\ resolved = <<>>
  /\ plannedMoves = <<>> /\ displaySkips = <<>>
  /\ luaMoves = <<>> /\ luaSkipped = <<>> /\ exitCode = "none"
  /\ options = NoOptions /\ fault = {} /\ calls = <<>> /\ sentMoves = <<>>
  /\ MatchIdle
  /\ RectIdle
  /\ AuxIdle
  /\ phase = "start"

\* buildLayout({ selectedWindows, displayRoleAssignments })
BuildLayoutCall ==
  /\ phase = "start"
  /\ layout' = buildLayout(selectedWindows, displayRoleAssignments)
  /\ phase' = "buildLayout"
  /\ UNCHANGED <<selectedWindows, displayRoleAssignments, plannedMoves, displaySkips,
                 luaMoves, luaSkipped, exitCode, options, fault, calls, sentMoves>>
  /\ UNCHANGED auxVars
  /\ UNCHANGED matchVars
  /\ UNCHANGED resolveVars
  /\ UNCHANGED rectVars

\* resolveDisplayRoles(layout.displayRoles, screens) on the same snapshot
ResolveBuiltLayout ==
  /\ phase = "buildLayout"
  /\ roles' = layout.displayRoles
  /\ resolved' = resolveDisplayRoles(layout.displayRoles, screens)
  /\ phase' = "resolveBuiltLayout"
  /\ UNCHANGED screens
  /\ UNCHANGED pipeVars
  /\ UNCHANGED auxVars
  /\ UNCHANGED matchVars
  /\ UNCHANGED rectVars

NextBuild == BuildLayoutCall \/ ResolveBuiltLayout

SpecBuild == InitBuild /\ [][NextBuild]_vars

\* ───── Claims about buildLayout ───────────────────────────────────────────
Built == phase \in {"buildLayout", "resolveBuiltLayout"}

\* the screen assigned to a role name
ScreenGiven(roleName) ==
  (CHOOSE e \in Range(displayRoleAssignments) : e.name = roleName).screen

\* position of a role name among the input assignments
InputOrder(roleName) ==
  CHOOSE i \in 1..Len(displayRoleAssignments) : displayRoleAssignments[i].name = roleName

\* 0 for the primary screen, 1 for a builtin one, 2 for the rest
ScreenClass(s) == IF s.isPrimary THEN 0 ELSE IF s.isBuiltin THEN 1 ELSE 2

\* every order of insertion of the same assignments
OrdersOf(seq) ==
  { [i \in 1..Len(seq) |-> seq[p[i]]] :
      p \in { f \in [1..Len(seq) -> 1..Len(seq)] :
                \A i, j \in 1..Len(seq) : f[i] = f[j] => i = j } }

\* one role per assignment, with the matcher the claim names
C24_Matchers ==
  /\ Len(layout.displayRoles) = Len(displayRoleAssignments)
  /\ { layout.displayRoles[i].name : i \in 1..Len(layout.displayRoles) }
       = { e.name : e \in Range(displayRoleAssignments) }
  /\ \A i \in 1..Len(layout.displayRoles) :
       LET s == ScreenGiven(layout.displayRoles[i].name)
           m == layout.displayRoles[i].match
       IN  IF s.isPrimary THEN m.kind = "primary"
           ELSE IF s.isBuiltin THEN m.kind = "builtin"
           ELSE m.kind = "byName" /\ m.name = s.name

\* primary-screen roles first, builtin-screen roles second, the rest in
\* alphabetical order of screen name
C24_Ordered ==
  \A i, j \in 1..Len(layout.displayRoles) :
    i < j =>
      LET a == ScreenGiven(layout.displayRoles[i].name)
          b == ScreenGiven(layout.displayRoles[j].name)
      IN  \/ ScreenClass(a) < ScreenClass(b)
          \/ ScreenClass(a) = ScreenClass(b) /\ ~NameBefore(b.name, a.name)

\* C24 (as claimed): one role per assignment with matcher {primary}, else
\* {builtin}, else {byName: full name}; roles ordered primary first, builtin
\* second, the rest alphabetically by screen name, and the order is the same
\* for every order of the input assignments
C24_RolesOrderedWhateverInput ==
  Built =>
    /\ C24_Matchers
    /\ C24_Ordered
    /\ \A other \in OrdersOf(displayRoleAssignments) :
         buildLayout(selectedWindows, other).displayRoles = layout.displayRoles

\* C24 (amended): the same, except that roles whose screens are of the same
\* class and bear the same name keep the order of the input assignments; the
\* order is independent of the input order when no two such screens are
\* assigned
C24_RolesOrderedTiesKeepInput ==
  Built =>
    /\ C24_Matchers
    /\ C24_Ordered
    /\ \A i, j \in 1..Len(layout.displayRoles) :
         LET a == ScreenGiven(layout.displayRoles[i].name)
             b == ScreenGiven(layout.displayRoles[j].name)
         IN  (i < j /\ ScreenClass(a) = ScreenClass(b) /\ a.name = b.name) =>
               InputOrder(layout.displayRoles[i].name) < InputOrder(layout.displayRoles[j].name)
    /\ (\A e, f \in Range(displayRoleAssignments) :
          (ScreenClass(e.screen) = ScreenClass(f.screen) /\ e.screen.name = f.screen.name)
            => e = f)
       => \A other \in OrdersOf(displayRoleAssignments) :
            buildLayout(selectedWindows, other).displayRoles = layout.displayRoles

\* three roles given in the order external, builtin, primary came out as
\* primary, builtin, external
C24_Witness ==
  /\ Built /\ Len(displayRoleAssignments) = 3
  /\ ScreenClass(displayRoleAssignments[1].screen) = 2
  /\ ScreenClass(displayRoleAssignments[2].screen) = 1
  /\ ScreenClass(displayRoleAssignments[3].screen) = 0
  /\ layout.displayRoles[1].name = displayRoleAssignments[3].name
  /\ layout.displayRoles[2].name = displayRoleAssignments[2].name
  /\ layout.displayRoles[3].name = displayRoleAssignments[1].name
  /\ layout.displayRoles[3].match.kind = "byName"

\* two externals of the same name: their roles came out in input order
C24_WitnessTie ==
  /\ Built /\ Len(displayRoleAssignments) = 2
  /\ ScreenClass(displayRoleAssignments[1].screen) = 2
  /\ ScreenClass(displayRoleAssignments[2].screen) = 2
  /\ displayRoleAssignments[1].screen.name = displayRoleAssignments[2].screen.name
  /\ displayRoleAssignments[1].name = RoleNames[2]
  /\ layout.displayRoles[1].name = RoleNames[2]

\* saveCommand returned a layout
Saved == phase \in {"saveCommand", "matchSavedLayout"} /\ exitCode = "Success"

\* the selected windows whose screen was given a role, in selection order
OnAssignedScreen ==
  LET HasRole(w) == \E e \in Range(displayRoleAssignments) : e.screen.id = w.screenId
  IN  SelectSeq(selectedWindows, HasRole)

\* C25: buildLayout emits no rule for a selected window whose screen has no
\* assigned role and raises no error, emits exactly one rule for every other
\* selected window (in selection order, for that window's application and
\* screen), and every rule's place.display is a key of the layout's displayRoles
C25_RulesOnlyForAssignedScreens ==
  Saved =>
    /\ Len(layout.windows) = Len(OnAssignedScreen)
    /\ \A k \in 1..Len(layout.windows) :
         LET r == layout.windows[k]
             w == OnAssignedScreen[k]
         IN  /\ r.app.name = w.app.name
             /\ r.app.bundleId = (IF w.app.bundleId = Null THEN Undefined ELSE w.app.bundleId)
             /\ \E i \in 1..Len(layout.displayRoles) :
                  /\ layout.displayRoles[i].name = r.place.display
                  /\ \E e \in Range(displayRoleAssignments) :
                       e.name = r.place.display /\ e.screen.id = w.screenId

\* two windows were selected, the first on a screen without a role: the
\* layout holds one rule, for the second
C25_Witness ==
  /\ Saved /\ Len(selectedWindows) = 2 /\ Len(displayRoleAssignments) = 1
  /\ selectedWindows[1].screenId # displayRoleAssignments[1].screen.id
  /\ selectedWindows[2].screenId = displayRoleAssignments[1].screen.id
  /\ selectedWindows[1].app # selectedWindows[2].app
  /\ Len(layout.windows) = 1
  /\ layout.windows[1].app.name = selectedWindows[2].app.name

\* ───── The round trip of the rect converter, in pixels ──────────────────────
\* half a pixel relative to a frame size
HalfPixel(size) == <<1, 2 * size>>

\* |p - q| = tol
ExactlyApart(p, q, tol) ==
  Abs(p[1] * q[2] - q[1] * p[2]) * tol[2] = tol[1] * p[2] * q[2]

\* C26: for every normalized rect r and frame f of positive width and height,
\* each component of absoluteToNormalized(normalizedToAbsolute(r, f), f) is
\* within half a pixel of r's, relative to the frame size: 0.5 / f.w for x and
\* w, 0.5 / f.h for y and h
C26_RoundTripWithinHalfPixel ==
  (RoundTripped /\ screenFrame.w > 0 /\ screenFrame.h > 0) =>
    /\ WithinAbsolute(back.x, normalized.x, HalfPixel(screenFrame.w))
    /\ WithinAbsolute(back.y, normalized.y, HalfPixel(screenFrame.h))
    /\ WithinAbsolute(back.w, normalized.w, HalfPixel(screenFrame.w))
    /\ WithinAbsolute(back.h, normalized.h, HalfPixel(screenFrame.h))

\* a round trip that moved x by exactly half a pixel on a frame with a
\* negative origin, and moved h by less
C26_Witness ==
  /\ RoundTripped /\ screenFrame.x < 0
  /\ ExactlyApart(back.x, normalized.x, HalfPixel(screenFrame.w))
  /\ back.h[1] * normalized.h[2] # normalized.h[1] * back.h[2]
  /\ ~ExactlyApart(back.h, normalized.h, HalfPixel(screenFrame.h))

\* ───── One run of the generated program: the entry block and doApply ───────
MaxEntryTime == 4        \* the clock of a run stops after 0.4 s
MaxScriptTenths == 2     \* the two AppleScript calls of nudgeDock take up to 0.2 s
DoAfterTenths == 1       \* hs.timer.doAfter(0.1, doApply)

Call(name) == [name |-> name, at |-> now]

\* the host calls of doApply(), in order, for the moves it computed
doApplyCalls(moves) ==
  <<Call("doApply"), Call("collectScreens"), Call("collectWindows"),
    Call("resolveDisplayRoles"), Call("matchWindows")>>
  \o [i \in 1..Len(moves) |-> Call("setFrame")]

\* doApply(): screens and windows are read, roles resolved, rules matched, and
\* every move applied
doApply ==
  \E resolvedDisplays \in luaResolveDisplayRoles(layout.displayRoles, screens) :
    LET moves == luaMatchWindows(layout.windows,
                   collectWindows(windows, layout.options.restoreMinimized),
                   resolvedDisplays)
    IN  /\ luaMoves' = moves
        /\ calls' = calls \o doApplyCalls(moves)
        /\ applied' = Append(applied, now)

\* (mutant) the entry block applies at once after the nudge, without a timer
EntryNudgeNoTimer(scriptTenths) ==
  \E res \in luaResolveDisplayRoles(layout.displayRoles, screens) :
    /\ luaResolved' = res
    /\ now' = now
    /\ timerDue' = NoTimer
    /\ \E resolvedDisplays \in luaResolveDisplayRoles(layout.displayRoles, screens) :
         LET moves == luaMatchWindows(layout.windows,
                        collectWindows(windows, layout.options.restoreMinimized),
                        resolvedDisplays)
         IN  /\ luaMoves' = moves
             /\ applied' = Append(applied, now)
             /\ calls' = (IF ResolvedScreen(res, layout.options.dockDisplay) # NoScreen
                          THEN <<Call("collectScreens"), Call("resolveDisplayRoles"),
                                 Call("setAbsolutePosition"), Call("autohide true"),
                                 Call("autohide false")>>
                          ELSE <<Call("collectScreens"), Call("resolveDisplayRoles")>>)
                         \o doApplyCalls(moves)

\* the branch `if LAYOUT.options.dockDisplay then`: the role is resolved on the
\* screens read now; a screen found, the mouse is moved, the Dock nudged (the
\* AppleScript calls are synchronous and take scriptTenths) and doApply is
\* left to a timer; none found, doApply runs at once
EntryNudge(scriptTenths) ==
  \E res \in luaResolveDisplayRoles(layout.displayRoles, screens) :
    /\ luaResolved' = res
    /\ IF ResolvedScreen(res, layout.options.dockDisplay) # NoScreen
       THEN /\ calls' = <<Call("collectScreens"), Call("resolveDisplayRoles"),
                          Call("setAbsolutePosition"), Call("autohide true"),
                          [name |-> "autohide false", at |-> now + scriptTenths],
                          [name |-> "doAfter", at |-> now + scriptTenths]>>
            /\ now' = now + scriptTenths
            /\ timerDue' = now + scriptTenths + DoAfterTenths
            /\ UNCHANGED <<luaMoves, applied>>
       ELSE /\ \E resolvedDisplays \in luaResolveDisplayRoles(layout.displayRoles, screens) :
                 LET moves == luaMatchWindows(layout.windows,
                                collectWindows(windows, layout.options.restoreMinimized),
                                resolvedDisplays)
                 IN  /\ luaMoves' = moves
                     /\ calls' = <<Call("collectScreens"), Call("resolveDisplayRoles")>>
                                   \o doApplyCalls(moves)
                     /\ applied' = Append(applied, now)
            /\ UNCHANGED <<now, timerDue>>

InitEntry ==
  /\ layout \in PlanLayouts
  /\ screens \in PlanScreenLists
  /\ windows \in UNION { WindowListsOf(n, ApplyApps, {<<TRUE, FALSE>>}, {<<0, 0, <<"b">>>>},
                                       {0}, {"s1"}) : n \in 0..MaxWindows }
  /\ restoreMinimized = FALSE /\ rule = NoRule
  /\ claimed = {} /\ matched = <<>> /\ skipped = <<>>
  /\ roles = <<>> /\ resolved = <<>>
  /\ RectIdle
  /\ selectedWindows = <<>> /\ displayRoleAssignments = <<>>
  /\ plannedMoves = <<>> /\ displaySkips = <<>>
  /\ luaMoves = <<>> /\ luaSkipped = <<>> /\ exitCode = "none"
  /\ options = NoOptions /\ fault = {} /\ calls = <<>> /\ sentMoves = <<>>
  /\ AuxIdle
  /\ phase = "start"

EntryFrame ==
  /\ UNCHANGED <<file, loadResult, lastRun, runs, pending,
                 resolvedAgain, matchedAgain, skippedAgain>>
  /\ UNCHANGED <<layout, selectedWindows, displayRoleAssignments, plannedMoves,
                 displaySkips, luaSkipped, exitCode, options, fault, sentMoves>>
  /\ UNCHANGED matchVars
  /\ UNCHANGED resolveVars
  /\ UNCHANGED rectVars

\* the program is run: its last block
Entry ==
  /\ phase = "start"
  /\ IF layout.options.dockDisplay # Undefined
     THEN \E scriptTenths \in 0..MaxScriptTenths : EntryNudge(scriptTenths)
     ELSE /\ doApply
          /\ UNCHANGED <<now, timerDue, luaResolved>>
  /\ phase' = "entry"
  /\ EntryFrame

\* the timer of hs.timer.doAfter fires
TimerFires ==
  /\ timerDue # NoTimer /\ now = timerDue
  /\ doApply
  /\ timerDue' = NoTimer
  /\ phase' = "timer"
  /\ UNCHANGED <<now, luaResolved>>
  /\ EntryFrame

\* time passes, up to the moment a timer is due
EntryTick ==
  /\ phase # "start"
  /\ now < MaxEntryTime
  /\ timerDue # NoTimer => now < timerDue
  /\ now' = now + 1
  /\ phase' = "tick"
  /\ UNCHANGED <<timerDue, applied, luaResolved, luaMoves, calls>>
  /\ EntryFrame

NextEntry == Entry \/ TimerFires \/ EntryTick

SpecEntry == InitEntry /\ [][NextEntry]_vars

\* the program is run when it is loaded, time passes, and Hammerspoon's run
\* loop fires a timer that is due
SpecEntryLive ==
  SpecEntry /\ WF_vars(Entry) /\ WF_vars(TimerFires) /\ WF_vars(EntryTick)

\* positions of the calls of a name in the log
CallsOf(name) == { i \in 1..Len(calls) : calls[i].name = name }

\* the entry block found a screen for LAYOUT.options.dockDisplay
DockResolved ==
  /\ layout.options.dockDisplay # Undefined
  /\ ResolvedScreen(luaResolved, layout.options.dockDisplay) # NoScreen

\* the calls doApply makes: the re-read of the screens and the window moves
ApplyCallNames == {"doApply", "collectWindows", "matchWindows", "setFrame"}

C27_Order ==
  phase # "start" =>
    IF DockResolved
    THEN /\ \E m, t, f \in 1..Len(calls) :
              /\ CallsOf("setAbsolutePosition") = {m}
              /\ CallsOf("autohide true") = {t}
              /\ CallsOf("autohide false") = {f}
              /\ m < t /\ t < f
              /\ \A i \in 1..Len(calls) :
                   (calls[i].name \in ApplyCallNames \/ (calls[i].name = "collectScreens" /\ i > m))
                     => /\ f < i
                        /\ calls[i].at = calls[f].at + DoAfterTenths
         /\ Len(applied) <= 1
         /\ \A i \in 1..Len(applied) :
              \E f \in CallsOf("autohide false") : applied[i] = calls[f].at + DoAfterTenths
         /\ Cardinality(CallsOf("doApply")) = Len(applied)
    ELSE /\ applied = <<0>>
         /\ Cardinality(CallsOf("doApply")) = 1
         /\ CallsOf("setAbsolutePosition") = {}
         /\ CallsOf("autohide true") = {} /\ CallsOf("autohide false") = {}
         /\ timerDue = NoTimer

C27_WitnessUnresolved ==
  /\ layout.options.dockDisplay # Undefined /\ ~DockResolved
  /\ phase = "entry" /\ applied = <<0>>
  /\ Cardinality(CallsOf("setFrame")) > 0

\* ───── matchWindows on whole rule lists, rule ids free ──────────────────────
\* rule lists of up to MaxRules rules whose ids need not differ
ListRules ==
  UNION { { r \in RuleDomain(id, {"main"}) :
              /\ r.app \in { [bundleId |-> "B1", name |-> Undefined],
                             [bundleId |-> Undefined, name |-> "N1"],
                             [bundleId |-> Undefined, name |-> "N2"] }
              /\ r.match.kind \in {"all", "mainWindow", "byIndex"}
              /\ r.match.index < MaxWindows } : id \in 1..MaxRules }

FreeIdRuleLists ==
  UNION { [1..n -> ListRules] : n \in 0..MaxRules }

InitMatchList ==
  /\ layout \in { [NoLayout EXCEPT !.windows = rs] : rs \in FreeIdRuleLists }
  /\ windows \in UNION { WindowListsOf(n, WinApps, {<<TRUE, FALSE>>, <<FALSE, FALSE>>},
                                       {<<0, 0, <<"b">>>>, <<1, 0, <<"a", "b">>>>},
                                       0..1, {"s1"}) : n \in 0..MaxWindows }
  /\ restoreMinimized = FALSE /\ rule = NoRule
  /\ claimed = {} /\ matched = <<>> /\ skipped = <<>>
  /\ ResolveIdle
  /\ RectIdle
  /\ selectedWindows = <<>> /\ displayRoleAssignments = <<>>
  /\ plannedMoves = <<>> /\ displaySkips = <<>>
  /\ luaMoves = <<>> /\ luaSkipped = <<>> /\ exitCode = "none"
  /\ options = NoOptions /\ fault = {} /\ calls = <<>> /\ sentMoves = <<>>
  /\ AuxIdle
  /\ phase = "start"

\* matchWindows(rules, windows, options)
MatchWindowsCall ==
  /\ phase = "start"
  /\ LET out == matchWindows(layout.windows, windows, restoreMinimized)
     IN  /\ matched' = out.matched
         /\ skipped' = out.skipped
         /\ claimed' = { m.windowId : m \in Range(out.matched) }
  /\ phase' = "matchWindows"
  /\ UNCHANGED <<windows, restoreMinimized, rule>>
  /\ UNCHANGED resolveVars
  /\ UNCHANGED rectVars
  /\ UNCHANGED pipeVars
  /\ UNCHANGED auxVars

NextMatchList == MatchWindowsCall

SpecMatchList == InitMatchList /\ [][NextMatchList]_vars

ListMatched == phase = "matchWindows"

\* positions of the entries of a list that carry a rule id
EntriesOf(list, ruleId) == { i \in 1..Len(list) : list[i].ruleId = ruleId }

RECURSIVE SumTo(_, _)
SumTo(f, k) == IF k = 0 THEN 0 ELSE f[k] + SumTo(f, k - 1)

\* `matched` and `skipped` are the entries pushed for rule 1, then those for
\* rule 2, ...: rule k pushed m[k] matched entries and s[k] skipped entries,
\* all carrying its id, either m[k] >= 1 and s[k] = 0 or m[k] = 0 and s[k] = 1,
\* and m[k] <= 1 unless the rule is of kind 'all'
PushedPerRule(m, s) ==
  LET n == Len(layout.windows)
  IN  /\ SumTo(m, n) = Len(matched) /\ SumTo(s, n) = Len(skipped)
      /\ \A k \in 1..n :
           LET r == layout.windows[k]
           IN  /\ \A i \in (SumTo(m, k - 1) + 1)..SumTo(m, k) : matched[i].ruleId = r.id
               /\ \A i \in (SumTo(s, k - 1) + 1)..SumTo(s, k) : skipped[i].ruleId = r.id
               /\ \/ m[k] >= 1 /\ s[k] = 0
                  \/ m[k] = 0 /\ s[k] = 1
               /\ r.match.kind # "all" => m[k] <= 1

C29_WindowOrderIrrelevant ==
  (ListMatched /\ \A i, j \in 1..Len(windows) : windows[i].id = windows[j].id => i = j) =>
    \A other \in OrdersOf(windows) :
      LET out == matchWindows(layout.windows, other, restoreMinimized)
      IN  out.matched = matched /\ out.skipped = skipped

\* two windows of one application listed against the sort order (the second
\* lies to the left of the first): a byIndex 0 rule took the second, and a
\* later rule the first
C29_Witness ==
  /\ ListMatched /\ Len(windows) = 2 /\ Len(layout.windows) = 2
  /\ windows[1].app = windows[2].app /\ windows[1].isStandard /\ windows[2].isStandard
  /\ windows[2].frame.x < windows[1].frame.x
  /\ layout.windows[1].match.kind = "byIndex" /\ layout.windows[1].match.index = 0
  /\ Len(matched) = 2 /\ matched[1].windowId = 2 /\ matched[2].windowId = 1

\* C30: when the layout returned by buildLayout is resolved against the screen
\* list it was built from, every role is mapped to exactly the screen that was
\* assigned to it
C30_RolesResolveToAssignedScreens ==
  phase = "resolveBuiltLayout" =>
    \A e \in Range(displayRoleAssignments) : resolved[e.name] = e.screen

\* C30, the part that does hold: a role assigned to the primary or to the
\* builtin screen is mapped back to it
C30_PrimaryAndBuiltinResolveBack ==
  phase = "resolveBuiltLayout" =>
    \A e \in Range(displayRoleAssignments) :
      (e.screen.isPrimary \/ e.screen.isBuiltin) => resolved[e.name] = e.screen

====
